---- MODULE Spec2Model ----
(***************************************************************************)
(* Resilience layer of youtube-channel-analyzer:                           *)
(*   RateLimiter            src/shared/utils/rate_limiter.py               *)
(*   CircuitBreaker         src/shared/utils/error_handler.py              *)
(*   retry_with_backoff     src/shared/utils/error_handler.py              *)
(*   CacheManager           src/shared/utils/cache_manager.py              *)
(*   RedisCacheManager      src/shared/utils/cache_manager.py              *)
(*   ProxyManager           src/shared/utils/proxy_manager.py              *)
(*   fetch of one page      src/scraper.py, src/shared/base_actor.py       *)
(* Time is a discrete clock `now`; one tick is the granularity at which    *)
(* datetime.utcnow() / time.time() can tell two instants apart.            *)
(***************************************************************************)
EXTENDS Integers, Sequences, FiniteSets, TLC

\* ---------------------------------------------------------------- bounds
MaxTime == 3            \* the clock runs over 0..MaxTime
MaxRequestsBound == 2   \* max_requests is drawn from 0..MaxRequestsBound
MaxWindowBound == 2     \* time_window is drawn from 0..MaxWindowBound
NumCallers == 2         \* coroutines that call RateLimiter.acquire()
MaxCalls == 3           \* acquire() calls in one behaviour
MaxThreshold == 3       \* failure_threshold is drawn from 1..MaxThreshold
MaxTimeout == 2         \* timeout is drawn from 0..MaxTimeout
MaxFailures == 4        \* record_failure() is explored up to this failure_count
MaxRetriesBound == 3    \* max_retries is drawn from 0..MaxRetriesBound
MaxBaseDelay == 2       \* base_delay is drawn from 1..MaxBaseDelay
MaxDelayBound == 4      \* max_delay is drawn from 1..MaxDelayBound
MaxExpBase == 2         \* exponential_base is drawn from 1..MaxExpBase
MaxTtl == 2             \* ttl is drawn from 0..MaxTtl
MaxArgs == 2            \* make_key is called with 0..MaxArgs positional arguments
MaxPool == 3            \* the proxy pool holds 0..MaxPool entries
MaxGets == 4            \* get_proxy() calls in one behaviour
MaxFetches == 2         \* fetches made in one behaviour
MaxOtherCalls == 2      \* acquire() calls made next to the fetch
FetchMaxRetries == 3    \* @retry_with_backoff(max_retries=3, ...) on the fetch
FetchBaseDelay == 2     \* @retry_with_backoff(..., base_delay=2.0) on the fetch
MaxReports == 1         \* a success or failure counter is explored up to this value

Callers == 1..NumCallers

Max(a, b) == IF a >= b THEN a ELSE b
Min(a, b) == IF a <= b THEN a ELSE b

VARIABLES
    now,              \* the clock read by datetime.utcnow() and time.time()
    \* RateLimiter
    max_requests,     \* self.max_requests
    time_window,      \* self.time_window
    requests,         \* self.requests: deque of admission timestamps, oldest first
    lockOwner,        \* holder of self._lock, NoOwner when free
    waiters,          \* FIFO queue of coroutines blocked on self._lock
    pc,               \* per caller: idle, waiting, sleeping, admitted, raised
    wait_seconds,     \* per caller: the duration handed to asyncio.sleep (0: none)
    entered,          \* per caller: the value of `now` read at line 42
    queued,           \* per caller: whether this acquire had to wait for the lock
    sleepUntil,       \* earliest clock value at which the sleeping holder resumes
    history,          \* completed acquires, in order: [enter, wait, admit]
    ncalls,           \* acquire() calls issued so far
    \* CircuitBreaker
    failure_threshold, \* self.failure_threshold
    timeout,           \* self.timeout
    state,             \* self.state: CLOSED, OPEN, HALF_OPEN
    failure_count,     \* self.failure_count
    last_failure_time, \* self.last_failure_time, NoneTime for None
    cbLast,            \* the last breaker call: [op, pre, preLft, at, ret]
    streak,            \* record_failure calls in a row since CLOSED with count 0
    trial,             \* outcome of the last half-open trial: [outcome, at]
    \* retry_with_backoff
    max_retries,       \* decorator arguments
    base_delay,
    max_delay,
    exponential_base,
    on_retry,          \* "none": no callback; "ok": one that returns; "fails": one that raises
    retries,           \* the wrapper's local counter
    rpc,               \* running, sleeping, returned, raised
    outcomes,          \* what each invocation of func did, in order: [kind, val]
    delays,            \* the delays handed to asyncio.sleep, in order
    callbacks,         \* the (retries, delay, error) of each on_retry call, in order
    propagated,        \* what the wrapper returned or raised to its caller
    errlog,            \* logger.error records: [what, n, error]
    \* CacheManager / RedisCacheManager
    ttl,               \* self.ttl
    enabled,           \* self.enabled, per manager object
    files,             \* cache_dir: per key, the content of <key>.json
    rdb,               \* the Redis database: per key, the string and its expiry
    written,           \* per key: the last set() since the key was removed
    stale,             \* per key: a get() found the entry past its ttl, no set() since
    cacheLast,         \* the last cache call and what both managers returned
    \* make_key
    keyA,              \* the first make_key call: [impl, args, kwargs, key]
    keyB,              \* the second make_key call
    \* ProxyManager
    proxies,           \* self.proxies
    rotation_strategy, \* self.rotation_strategy
    current_index,     \* self.current_index
    proxy_stats,       \* self.proxy_stats: per endpoint, [has, success, failure]
    pmLast,            \* the last ProxyManager call: [op, ret, raised]
    ngets,             \* get_proxy() calls since construction
    poolChanged,       \* add_proxy or remove_proxy changed the pool since construction
    \* YouTubeAnalyzer._scrape_channel_info under @retry_with_backoff
    fpc,               \* idle, attempt, limiting, fetching, backoff, done
    fretries,          \* the wrapper's `retries` of the fetch in progress
    fwake,             \* clock value at which the wrapper's asyncio.sleep ends
    fproxy,            \* `proxy` of the attempt in progress
    fend,              \* how the last fetch ended: none, value, error, cancelled
    fcur,              \* what the fetch in progress has called so far
    fprev,             \* the fetch before it: how it ended and what it called
    nfetch             \* fetches started

rlVars == <<max_requests, time_window, requests, lockOwner, waiters, pc,
            wait_seconds, entered, queued, sleepUntil, history, ncalls>>

cbVars == <<failure_threshold, timeout, state, failure_count, last_failure_time,
            cbLast, streak, trial>>

rtVars == <<max_retries, base_delay, max_delay, exponential_base, on_retry, retries,
            rpc, outcomes, delays, callbacks, propagated, errlog>>

\* What the RateLimiter's operations leave alone.
cacheVars == <<ttl, enabled, files, rdb, written, stale, cacheLast>>

keyVars == <<keyA, keyB>>

pmVars == <<proxies, rotation_strategy, current_index, proxy_stats, pmLast, ngets,
            poolChanged>>

fetchVars == <<fpc, fretries, fwake, fproxy, fend, fcur, fprev, nfetch>>

nonRL == <<cbVars, rtVars, cacheVars, keyVars, pmVars, fetchVars>>

\* What the CircuitBreaker's operations leave alone.
nonCB == <<rlVars, rtVars, cacheVars, keyVars, pmVars, fetchVars>>

\* What the retry wrapper leaves alone.
nonRT == <<now, rlVars, cbVars, cacheVars, keyVars, pmVars, fetchVars>>

nonCache == <<now, rlVars, cbVars, rtVars, keyVars, pmVars, fetchVars>>

nonKey == <<now, rlVars, cbVars, rtVars, cacheVars, pmVars, fetchVars>>

nonPM == <<now, rlVars, cbVars, rtVars, cacheVars, keyVars, fetchVars>>

\* ============================================================ RateLimiter

\* asyncio.Lock() as created: nobody holds it.
NoOwner == 0

\* while self.requests and self.requests[0] < now - timedelta(seconds=W): popleft()
RECURSIVE Evict(_, _)
Evict(reqs, t) ==
    IF reqs # <<>> /\ reqs[1] < t - time_window
    THEN Evict(Tail(reqs), t)
    ELSE reqs

\* Mutant: the limit check off by one.
AtLimitStrict(reqs) == Len(reqs) > max_requests

\* if len(self.requests) >= self.max_requests
AtLimit(reqs) == Len(reqs) >= max_requests

\* wait_until = oldest_request + timedelta(seconds=W); (wait_until - now).total_seconds()
WaitSeconds(reqs, t) == (reqs[1] + time_window) - t

\* current_usage: timestamps with req_time >= now - W
current_usage == Cardinality({i \in DOMAIN requests : requests[i] >= now - time_window})

\* available_requests: max(0, max_requests - current_usage)
available_requests == Max(0, max_requests - current_usage)

\* Coroutines queued on self._lock.
NumWaiting == Len(waiters)

\* Latest clock value by which the in-flight acquires can all have finished.
Horizon(t, until, nw) == Max(t, until) + nw * time_window

\* RateLimiter(max_requests, time_window) for the configurations explored;
\* __init__ checks neither argument.
RLInit ==
    /\ max_requests \in 0..MaxRequestsBound
    /\ time_window \in 0..MaxWindowBound
    /\ requests = <<>>
    /\ lockOwner = NoOwner
    /\ waiters = <<>>
    /\ pc = [c \in Callers |-> "idle"]
    /\ wait_seconds = [c \in Callers |-> 0]
    /\ entered = [c \in Callers |-> 0]
    /\ queued = [c \in Callers |-> FALSE]
    /\ sleepUntil = 0
    /\ history = <<>>
    /\ ncalls = 0

\* RateLimiter(30, 60), not used: the defaults of base_actor's rate_limit config.
RLInitIdle ==
    /\ max_requests = 30
    /\ time_window = 60
    /\ requests = <<>>
    /\ lockOwner = NoOwner
    /\ waiters = <<>>
    /\ pc = [c \in Callers |-> "idle"]
    /\ wait_seconds = [c \in Callers |-> 0]
    /\ entered = [c \in Callers |-> 0]
    /\ queued = [c \in Callers |-> FALSE]
    /\ sleepUntil = 0
    /\ history = <<>>
    /\ ncalls = 0

\* Mutant: a path out of the block that keeps the lock.
KeptLock == lockOwner

\* The end of the `async with self._lock` block: the lock is released.
ReleasedLock == NoOwner

\* Lines 42-56 run by caller c (q: it had queued on the lock), which holds the
\* lock from line 41 on: evict,
\* check the limit, and either sleep (keeping the lock), fail on the empty
\* deque (max_requests <= 0), or append and leave the block.
AcquireBody(c, q) ==
    LET reqs == Evict(requests, now) IN
    /\ entered' = [entered EXCEPT ![c] = now]
    /\ IF AtLimit(reqs)
       THEN IF reqs = <<>>
            THEN \* self.requests[0] on an empty deque: IndexError leaves the block
                 /\ requests' = reqs
                 /\ pc' = [pc EXCEPT ![c] = "raised"]
                 /\ lockOwner' = ReleasedLock
                 /\ wait_seconds' = [wait_seconds EXCEPT ![c] = 0]
                 /\ UNCHANGED <<sleepUntil, history>>
            ELSE IF WaitSeconds(reqs, now) > 0
                 THEN \* await asyncio.sleep(wait_seconds), lock held
                      /\ requests' = reqs
                      /\ pc' = [pc EXCEPT ![c] = "sleeping"]
                      /\ lockOwner' = c
                      /\ wait_seconds' = [wait_seconds EXCEPT ![c] = WaitSeconds(reqs, now)]
                      /\ sleepUntil' = now + WaitSeconds(reqs, now)
                      /\ UNCHANGED history
                 ELSE \* wait_seconds <= 0: no sleep, no second eviction
                      /\ requests' = Append(reqs, now)
                      /\ pc' = [pc EXCEPT ![c] = "admitted"]
                      /\ lockOwner' = ReleasedLock
                      /\ wait_seconds' = [wait_seconds EXCEPT ![c] = 0]
                      /\ history' = Append(history, [enter |-> now, wait |-> 0, admit |-> now,
                                                    queued |-> q])
                      /\ UNCHANGED sleepUntil
       ELSE /\ requests' = Append(reqs, now)
            /\ pc' = [pc EXCEPT ![c] = "admitted"]
            /\ lockOwner' = ReleasedLock
            /\ wait_seconds' = [wait_seconds EXCEPT ![c] = 0]
            /\ history' = Append(history, [enter |-> now, wait |-> 0, admit |-> now,
                                                    queued |-> q])
            /\ UNCHANGED sleepUntil

\* `async with self._lock` reached by caller c: with the lock free and nobody
\* queued the caller enters the block without yielding; otherwise it queues
\* on the lock.
Enter(c) ==
    IF lockOwner = NoOwner /\ waiters = <<>>
    THEN /\ queued' = [queued EXCEPT ![c] = FALSE]
         /\ AcquireBody(c, FALSE)
         /\ UNCHANGED waiters
    ELSE /\ queued' = [queued EXCEPT ![c] = TRUE]
         /\ pc' = [pc EXCEPT ![c] = "waiting"]
         /\ waiters' = Append(waiters, c)
         /\ UNCHANGED <<requests, lockOwner, wait_seconds, entered, sleepUntil, history>>

\* await limiter.acquire()
Call(c) ==
    /\ pc[c] = "idle"
    /\ ncalls < MaxCalls
    /\ Horizon(now, IF lockOwner # NoOwner THEN sleepUntil ELSE now, NumWaiting + 1) <= MaxTime
    /\ ncalls' = ncalls + 1
    /\ Enter(c)
    /\ UNCHANGED <<now, max_requests, time_window>>
    /\ UNCHANGED nonRL

\* The lock was released: its first waiter is woken and enters the block.
Resume(c) ==
    /\ pc[c] = "waiting"
    /\ lockOwner = NoOwner
    /\ waiters # <<>>
    /\ Head(waiters) = c
    /\ waiters' = Tail(waiters)
    /\ AcquireBody(c, TRUE)
    /\ UNCHANGED <<now, max_requests, time_window, queued, ncalls>>
    /\ UNCHANGED nonRL

\* asyncio.sleep returned (not before its duration has passed): lines 58-63.
Wake(c) ==
    /\ pc[c] = "sleeping"
    /\ lockOwner = c
    /\ now >= sleepUntil
    /\ requests' = Append(Evict(requests, now), now)
    /\ history' = Append(history, [enter |-> entered[c], wait |-> wait_seconds[c],
                                   admit |-> now, queued |-> queued[c]])
    /\ pc' = [pc EXCEPT ![c] = "admitted"]
    /\ lockOwner' = ReleasedLock
    /\ UNCHANGED <<now, max_requests, time_window, waiters, wait_seconds, entered,
                   queued, sleepUntil, ncalls>>
    /\ UNCHANGED nonRL

\* The caller of acquire() goes on (with the admission, or with the exception).
Return(c) ==
    /\ pc[c] \in {"admitted", "raised"}
    /\ pc' = [pc EXCEPT ![c] = "idle"]
    /\ UNCHANGED <<now, max_requests, time_window, requests, lockOwner, waiters,
                   wait_seconds, entered, queued, sleepUntil, history, ncalls>>
    /\ UNCHANGED nonRL

\* The clock advances; within the modelled span it leaves every in-flight
\* acquire the time its sleep can take.
RLTick ==
    /\ Horizon(now + 1, IF lockOwner # NoOwner THEN sleepUntil ELSE now + 1, NumWaiting) <= MaxTime
    /\ now' = now + 1
    /\ UNCHANGED rlVars
    /\ UNCHANGED nonRL

\* ========================================================= CircuitBreaker

\* self.last_failure_time = None
NoneTime == -1

\* `if self.last_failure_time:` : None and 0 (0.0) are both false.
Truthy(t) == t # NoneTime /\ t # 0

\* time.time() - self.last_failure_time >= self.timeout
CooldownElapsed(t, last) == t - last >= timeout

\* A value of cbLast: the call, the state and last_failure_time it found, the
\* clock at the call, and what it returned (can_execute only).
CallRecord(op, ret) ==
    [op |-> op, pre |-> state, preLft |-> last_failure_time, at |-> now, ret |-> ret]

NoTrial == [outcome |-> "none", at |-> NoneTime]

\* CircuitBreaker(): the defaults of __init__.
CBDefault ==
    /\ failure_threshold = 5
    /\ timeout = 60
    /\ state = "CLOSED"
    /\ failure_count = 0
    /\ last_failure_time = NoneTime
    /\ cbLast = [op |-> "none", pre |-> "CLOSED", preLft |-> NoneTime, at |-> 0, ret |-> TRUE]
    /\ streak = 0
    /\ trial = NoTrial

\* CircuitBreaker(failure_threshold, timeout) for the configurations explored.
CBInit ==
    /\ failure_threshold \in 1..MaxThreshold
    /\ timeout \in 0..MaxTimeout
    /\ state = "CLOSED"
    /\ failure_count = 0
    /\ last_failure_time = NoneTime
    /\ cbLast = [op |-> "none", pre |-> "CLOSED", preLft |-> NoneTime, at |-> 0, ret |-> TRUE]
    /\ streak = 0
    /\ trial = NoTrial

\* can_execute(): the state it leaves.
StateAfterCanExecute ==
    IF state = "OPEN" /\ Truthy(last_failure_time)
                      /\ CooldownElapsed(now, last_failure_time)
    THEN "HALF_OPEN"
    ELSE state

\* can_execute(): the value it returns.
CanExecuteResult ==
    IF state = "CLOSED" THEN TRUE
    ELSE IF state = "OPEN"
         THEN Truthy(last_failure_time) /\ CooldownElapsed(now, last_failure_time)
         ELSE state = "HALF_OPEN"

can_execute ==
    /\ state' = StateAfterCanExecute
    /\ cbLast' = CallRecord("can_execute", CanExecuteResult)
    /\ UNCHANGED <<failure_threshold, timeout, failure_count, last_failure_time,
                   streak, trial, now>>
    /\ UNCHANGED nonCB

\* Mutant: record_success leaves the count of failures as it is.
CountKept(n) == n

\* record_success(): self.failure_count = 0
CountAfterSuccess(n) == 0

\* Mutant: record_success closes the breaker whatever its state.
StateAfterSuccessClosed(st) == "CLOSED"

\* Mutant: record_success without its HALF_OPEN branch.
StateAfterSuccessNoClose(st) == st

\* record_success(): HALF_OPEN closes, any other state stays.
StateAfterSuccess(st) == IF st = "HALF_OPEN" THEN "CLOSED" ELSE st

record_success ==
    /\ state' = StateAfterSuccess(state)
    /\ failure_count' = CountAfterSuccess(failure_count)
    /\ cbLast' = CallRecord("record_success", TRUE)
    /\ streak' = 0
    /\ trial' = IF state = "HALF_OPEN" THEN [outcome |-> "succeeded", at |-> now] ELSE NoTrial
    /\ UNCHANGED <<failure_threshold, timeout, last_failure_time, now>>
    /\ UNCHANGED nonCB

\* Mutant: the threshold compared with > instead of >=.
StateAfterFailureStrict(st, n) ==
    IF st = "HALF_OPEN" THEN "OPEN"
    ELSE IF n > failure_threshold THEN "OPEN" ELSE st

\* Mutant: record_failure without its HALF_OPEN branch.
StateAfterFailureNoReopen(st, n) ==
    IF n >= failure_threshold THEN "OPEN" ELSE st

\* record_failure(): HALF_OPEN re-opens; otherwise the count n just reached
\* decides.
StateAfterFailure(st, n) ==
    IF st = "HALF_OPEN" THEN "OPEN"
    ELSE IF n >= failure_threshold THEN "OPEN" ELSE st

record_failure ==
    /\ failure_count < MaxFailures
    /\ failure_count' = failure_count + 1
    /\ last_failure_time' = now
    /\ state' = StateAfterFailure(state, failure_count + 1)
    /\ cbLast' = CallRecord("record_failure", TRUE)
    /\ streak' = IF state = "CLOSED" /\ failure_count = 0 THEN 1
                 ELSE IF streak > 0 THEN streak + 1 ELSE 0
    /\ trial' = IF state = "HALF_OPEN" THEN [outcome |-> "failed", at |-> now] ELSE NoTrial
    /\ UNCHANGED <<failure_threshold, timeout, now>>
    /\ UNCHANGED nonCB

\* reset()
reset ==
    /\ failure_count' = 0
    /\ last_failure_time' = NoneTime
    /\ state' = "CLOSED"
    /\ cbLast' = CallRecord("reset", TRUE)
    /\ streak' = 0
    /\ trial' = NoTrial
    /\ UNCHANGED <<failure_threshold, timeout, now>>
    /\ UNCHANGED nonCB

\* time.time() advances.
CBTick ==
    /\ now < MaxTime
    /\ now' = now + 1
    /\ UNCHANGED cbVars
    /\ UNCHANGED nonCB

\* ===================================================== retry_with_backoff

\* What one invocation of func can do: return a value, raise an exception of
\* a type in `exceptions`, or raise one of another type.
Outcomes ==
    {[kind |-> "ok", val |-> "v1"],
     [kind |-> "retryable", val |-> "e1"],
     [kind |-> "retryable", val |-> "e2"],
     [kind |-> "other", val |-> "x1"]}

RECURSIVE Pow(_, _)
Pow(b, n) == IF n <= 0 THEN 1 ELSE b * Pow(b, n - 1)

\* Mutant: the delay is not capped.
DelayUncapped(n) == base_delay * Pow(exponential_base, n - 1)

\* delay = min(base_delay * (exponential_base ** (retries - 1)), max_delay)
Delay(n) == Min(base_delay * Pow(exponential_base, n - 1), max_delay)

\* Mutant: the retries are used up one attempt early.
ExhaustedEarly(n) == n >= max_retries

\* if retries > max_retries
Exhausted(n) == n > max_retries

\* An exception object as the caller sees it: the error, whether it is a
\* wrapper around it, and the attempt count it carries (-1: it carries none).
Exception(e) == [error |-> e, wrapped |-> FALSE, attempts |-> -1]

\* Mutant: the first error is raised instead of the one being handled.
RaisedFirst(errs) == Exception(errs[1].val)

\* The bare `raise` of line 55: the exception being handled, as it is.
Raised(errs) == Exception(errs[Len(errs)].val)

NothingYet == [how |-> "none", value |-> "", exc |-> Exception("")]

RTStart ==
    /\ retries = 0
    /\ rpc = "running"
    /\ outcomes = <<>>
    /\ delays = <<>>
    /\ callbacks = <<>>
    /\ propagated = NothingYet
    /\ errlog = <<>>

\* @retry_with_backoff() with its defaults, the wrapper just called.
RTDefault ==
    /\ max_retries = 3
    /\ base_delay = 1
    /\ max_delay = 60
    /\ exponential_base = 2
    /\ on_retry = "none"
    /\ RTStart

\* @retry_with_backoff(...) for the configurations explored, the wrapper just
\* called.
RTInit ==
    /\ max_retries \in 0..MaxRetriesBound
    /\ base_delay \in 1..MaxBaseDelay
    /\ max_delay \in 1..MaxDelayBound
    /\ exponential_base \in 1..MaxExpBase
    /\ on_retry \in {"none", "ok", "fails"}
    /\ RTStart

\* Mutant: every failure is caught, whatever its kind.
CaughtAny(out) == out.kind # "ok"

\* except exceptions as e: only failures of the selected kinds are caught.
Caught(out) == out.kind = "retryable"

\* Mutant: a failing callback ends the wrapper call.
AbortedByCallback(cb) == IF cb = "fails" THEN "raised" ELSE "sleeping"

\* Lines 68-75: whatever the callback did (`except Exception` around it), the
\* wrapper goes on to await asyncio.sleep(delay).
AfterCallback(cb) == "sleeping"

\* One pass of the loop body: func is invoked and does `out`.
Invoke(out) ==
    /\ rpc = "running"
    /\ retries <= max_retries
    /\ outcomes' = Append(outcomes, out)
    /\ IF out.kind = "ok"
       THEN \* return await func(*args, **kwargs)
            /\ rpc' = "returned"
            /\ propagated' = [how |-> "return", value |-> out.val, exc |-> Exception("")]
            /\ UNCHANGED <<retries, delays, callbacks, errlog>>
       ELSE IF ~Caught(out)
       THEN \* not caught by `except exceptions`: leaves the wrapper as raised
            /\ rpc' = "raised"
            /\ propagated' = [how |-> "raise", value |-> "", exc |-> Exception(out.val)]
            /\ UNCHANGED <<retries, delays, callbacks, errlog>>
       ELSE /\ retries' = retries + 1
            /\ IF Exhausted(retries + 1)
               THEN /\ errlog' = Append(errlog, [what |-> "max retries exceeded",
                                                n |-> max_retries, error |-> out.val])
                    /\ rpc' = "raised"
                    /\ propagated' = [how |-> "raise", value |-> "",
                                      exc |-> Raised(Append(outcomes, out))]
                    /\ UNCHANGED <<delays, callbacks>>
               ELSE /\ callbacks' =
                           IF on_retry # "none"
                           THEN Append(callbacks, [retries |-> retries + 1,
                                                   delay |-> Delay(retries + 1),
                                                   error |-> out.val])
                           ELSE callbacks
                    /\ errlog' =
                           IF on_retry = "fails"
                           THEN Append(errlog, [what |-> "error in retry callback",
                                                n |-> retries + 1, error |-> "callback_error"])
                           ELSE errlog
                    /\ delays' = Append(delays, Delay(retries + 1))
                    /\ rpc' = AfterCallback(on_retry)
                    /\ UNCHANGED propagated
    /\ UNCHANGED <<max_retries, base_delay, max_delay, exponential_base, on_retry>>
    /\ UNCHANGED nonRT

\* asyncio.sleep(delay) returned: back to the top of the loop.
RetryWake ==
    /\ rpc = "sleeping"
    /\ rpc' = "running"
    /\ UNCHANGED <<max_retries, base_delay, max_delay, exponential_base, on_retry,
                   retries, outcomes, delays, callbacks, propagated, errlog>>
    /\ UNCHANGED nonRT

\* ================================================================= cache
\* CacheManager (one JSON file per key under cache_dir) and RedisCacheManager
\* (one Redis string per key). The same calls are made on both, side by
\* side, so that what they return can be compared. Their methods have no
\* await, so each call is one step. Values are serialisable documents.

Insts == {"a", "b"}             \* manager objects over the same backing store
Keys == {"k1"}

Dict(n) == [py |-> "dict", id |-> n]
Values == {Dict(1), Dict(2)}

\* Python's None, what get() returns for absent.
None == [py |-> "None", id |-> 0]

\* json.dump(..., default=str) / json.dumps: the text written for a value.
JsonDump(v) == [json |-> IF v.py = "dict" THEN "object" ELSE "null", id |-> v.id]

\* json.load / json.loads: the value read from a text.
JsonLoad(s) == IF s.json = "object" THEN Dict(s.id) ELSE None

NoText == [json |-> "", id |-> 0]

\* cache_file.exists() is false.
NoFile == [kind |-> "none", timestamp |-> 0, data |-> NoText]

\* A file that open(..., 'w') truncated and json.dump did not complete.
Corrupt == [kind |-> "corrupt", timestamp |-> 0, data |-> NoText]

\* Mutant: the entry is stamped with the epoch instead of the current time.
WrittenUnstamped(v, t) == [kind |-> "json", timestamp |-> 0, data |-> JsonDump(v)]

\* cache_data = {'timestamp': time.time(), 'data': value}, dumped to the file.
Written(v, t) == [kind |-> "json", timestamp |-> t, data |-> JsonDump(v)]

\* Mutant: an entry expires as soon as its age reaches ttl.
ExpiredAtTtl(f, t) == ttl > 0 /\ t - f.timestamp >= ttl

\* if self.ttl > 0: ... if current_time - cached_time > self.ttl
Expired(f, t) == ttl > 0 /\ t - f.timestamp > ttl

\* Mutant: the expired file is left where it is.
KeptFile(f) == f

\* cache_file.unlink()
Unlinked(f) == NoFile

\* Mutant: the enabled flag is not looked at.
ActiveAlways(i) == TRUE

\* `if not self.enabled: return` at the top of every method.
Active(i) == enabled[i]

NoFault == "none"

\* CacheManager.get: what it returns.
GetResult(i, k, fault) ==
    IF ~Active(i) THEN None
    ELSE IF files[k].kind = "none" THEN None
    ELSE IF fault # NoFault \/ files[k].kind = "corrupt"
         THEN None                           \* except Exception: return None
    ELSE IF Expired(files[k], now) THEN None
    ELSE JsonLoad(files[k].data)

\* CacheManager.get: the file it leaves.
FileAfterGet(i, k, fault) ==
    IF Active(i) /\ files[k].kind = "json" /\ fault = NoFault /\ Expired(files[k], now)
    THEN Unlinked(files[k])
    ELSE files[k]

\* The Redis server: a key without expiry, or not yet past it, is there.
NoExpire == -1
NoEntry == [kind |-> "none", expire |-> NoExpire, data |-> NoText]

\* Mutant: the key is gone as soon as its expiry time is reached.
RedisLiveBefore(e, t) == e.kind = "val" /\ (e.expire = NoExpire \/ t < e.expire)

\* self.redis.get(key): the server drops a key once the clock is past its
\* expiry time.
RedisLive(e, t) == e.kind = "val" /\ (e.expire = NoExpire \/ t <= e.expire)

\* RedisCacheManager.get: what it returns.
RedisGetResult(i, k) ==
    IF ~Active(i) THEN None
    ELSE IF RedisLive(rdb[k], now) THEN JsonLoad(rdb[k].data)
    ELSE None

\* self.redis.setex(key, self.ttl, serialized) / self.redis.set(key, serialized)
RedisWritten(v, t) ==
    [kind |-> "val", expire |-> IF ttl > 0 THEN t + ttl ELSE NoExpire, data |-> JsonDump(v)]

\* The server forgets the keys that are past their expiry.
RedisSwept(db) == [k \in Keys |-> IF RedisLive(db[k], now) THEN db[k] ELSE NoEntry]

\* No set() since the key was removed; -1 and "": there was none before it.
NoSet == [value |-> None, at |-> -1, by |-> "", pat |-> -1, pby |-> ""]

NoOp == [op |-> "none", inst |-> "", key |-> "", value |-> None, at |-> 0,
         ret |-> None, rret |-> None, raised |-> FALSE, changed |-> FALSE, n |-> 0]

CacheStart ==
    /\ files = [k \in Keys |-> NoFile]
    /\ rdb = [k \in Keys |-> NoEntry]
    /\ written = [k \in Keys |-> NoSet]
    /\ stale = [k \in Keys |-> FALSE]
    /\ cacheLast = NoOp

\* CacheManager(cache_dir, ttl) as base_actor constructs it, ttl being 24 h
\* in units of an hour.
CacheDefault ==
    /\ ttl = 24
    /\ enabled = [i \in Insts |-> TRUE]
    /\ CacheStart

\* The managers explored: one ttl for all of them, over an empty cache_dir /
\* Redis database; "a" is enabled, "b" is a second writer or is disabled.
CacheInit ==
    /\ ttl \in 0..MaxTtl
    /\ enabled \in {e \in [Insts -> BOOLEAN] : e["a"]}
    /\ CacheStart

\* What the call just made is remembered as.
Called(op, i, k, v, ret, rret, raised, n) ==
    cacheLast' = [op |-> op, inst |-> i, key |-> k, value |-> v, at |-> now,
                  ret |-> ret, rret |-> rret, raised |-> raised,
                  changed |-> files' # files, n |-> n]

\* get(key) on manager i; `fault`: the file cannot be read or removed.
get(i, k, fault) ==
    /\ fault # NoFault => Active(i) /\ files[k].kind # "none"
    /\ files' = [files EXCEPT ![k] = FileAfterGet(i, k, fault)]
    /\ rdb' = IF Active(i) THEN RedisSwept(rdb) ELSE rdb
    /\ stale' = [stale EXCEPT ![k] =
                    \/ @
                    \/ Active(i) /\ written[k].by # "" /\ ttl > 0 /\ now - written[k].at > ttl]
    /\ Called("get", i, k, None, GetResult(i, k, fault), RedisGetResult(i, k), FALSE, 0)
    /\ UNCHANGED <<ttl, enabled, written>>
    /\ UNCHANGED nonCache

\* set(key, value) on manager i; `fault`: "open" if the file cannot be opened
\* for writing, "dump" if the write fails after the file was truncated.
set(i, k, v, fault) ==
    /\ fault # NoFault => Active(i)
    /\ files' = IF ~Active(i) \/ fault = "open" THEN files
                ELSE IF fault = "dump" THEN [files EXCEPT ![k] = Corrupt]
                ELSE [files EXCEPT ![k] = Written(v, now)]
    /\ rdb' = IF Active(i) THEN [rdb EXCEPT ![k] = RedisWritten(v, now)] ELSE rdb
    /\ written' = IF Active(i)
                  THEN [written EXCEPT ![k] =
                           [value |-> v, at |-> now, by |-> i, pat |-> @.at, pby |-> @.by]]
                  ELSE written
    /\ stale' = IF Active(i) THEN [stale EXCEPT ![k] = FALSE] ELSE stale
    /\ Called("set", i, k, v, None, None, FALSE, 0)
    /\ UNCHANGED <<ttl, enabled>>
    /\ UNCHANGED nonCache

\* delete(key) on manager i; `fault`: cache_file.unlink() raises, outside any
\* try.
delete(i, k, fault) ==
    /\ fault # NoFault => Active(i) /\ files[k].kind # "none"
    /\ files' = IF Active(i) /\ fault = NoFault
                THEN [files EXCEPT ![k] = Unlinked(@)]
                ELSE files
    /\ rdb' = IF Active(i) THEN [rdb EXCEPT ![k] = NoEntry] ELSE rdb
    /\ written' = IF Active(i) THEN [written EXCEPT ![k] = NoSet] ELSE written
    /\ Called("delete", i, k, None, None, None, fault # NoFault, 0)
    /\ UNCHANGED <<ttl, enabled, stale>>
    /\ UNCHANGED nonCache

\* The *.json files of cache_dir.
Existing == {k \in Keys : files[k].kind # "none"}

\* clear() on manager i, unlinking the files `removed`; `fault`: the next
\* unlink raises, outside any try, and the files not yet reached stay.
clear(i, removed, fault) ==
    /\ removed \subseteq Existing
    /\ ~Active(i) => removed = {} /\ fault = NoFault
    /\ Active(i) /\ fault = NoFault => removed = Existing
    /\ fault # NoFault => removed # Existing
    /\ files' = [k \in Keys |-> IF k \in removed THEN Unlinked(files[k]) ELSE files[k]]
    /\ rdb' = IF Active(i) THEN [k \in Keys |-> NoEntry] ELSE rdb
    /\ written' = IF Active(i) THEN [k \in Keys |-> NoSet] ELSE written
    /\ Called("clear", i, "", None, None, None, fault # NoFault, 0)
    /\ UNCHANGED <<ttl, enabled, stale>>
    /\ UNCHANGED nonCache

\* get_stats() on manager i; `fault`: f.stat() raises for one of the files,
\* outside any try.
get_stats(i, fault) ==
    /\ fault # NoFault => Active(i) /\ Existing # {}
    /\ UNCHANGED <<ttl, enabled, files, rdb, written, stale>>
    /\ Called("get_stats", i, "", None, None, None, fault # NoFault,
              IF Active(i) /\ fault = NoFault THEN Cardinality(Existing) ELSE 0)
    /\ UNCHANGED nonCache

\* time.time() moves on.
CacheTick ==
    /\ now < MaxTime
    /\ now' = now + 1
    /\ UNCHANGED cacheVars
    /\ UNCHANGED <<rlVars, cbVars, rtVars, keyVars, pmVars, fetchVars>>

\* ============================================================== make_key
\* Strings are sequences of characters. The hash is taken as one-to-one on
\* the strings explored (they are short, and no two of them are known to
\* collide under MD5): what make_key can confuse is what it joins.

\* The positional arguments explored, as str(arg) renders them.
Parts == {<<"a">>, <<"b">>, <<"a", ":", "a">>}

\* Names and values of the keyword arguments explored.
KwNames == {<<"k">>, <<"p">>}
KwValues == {<<"a">>}

ArgSeqs == UNION {[1..n -> Parts] : n \in 0..MaxArgs}

\* **kwargs: (name, value) pairs in insertion order, no name twice.
KwSeqs ==
    {kw \in UNION {[1..n -> KwNames \X KwValues] : n \in 0..Cardinality(KwNames)} :
        \A x, y \in DOMAIN kw : x # y => kw[x][1] # kw[y][1]}

\* ord(c)
Ord(c) ==
    CASE c = ":" -> 58
      [] c = "=" -> 61
      [] c = "a" -> 97
      [] c = "b" -> 98
      [] c = "k" -> 107
      [] c = "p" -> 112

\* s < t for Python strings.
RECURSIVE StrLess(_, _)
StrLess(s, t) ==
    IF t = <<>> THEN FALSE
    ELSE IF s = <<>> THEN TRUE
    ELSE IF Ord(Head(s)) # Ord(Head(t)) THEN Ord(Head(s)) < Ord(Head(t))
    ELSE StrLess(Tail(s), Tail(t))

\* One item put at its place in a list sorted by name.
RECURSIVE Insert(_, _)
Insert(item, sorted) ==
    IF sorted = <<>> THEN <<item>>
    ELSE IF StrLess(item[1], Head(sorted)[1]) THEN <<item>> \o sorted
    ELSE <<Head(sorted)>> \o Insert(item, Tail(sorted))

RECURSIVE SortItems(_)
SortItems(kw) == IF kw = <<>> THEN <<>> ELSE Insert(Head(kw), SortItems(Tail(kw)))

\* Mutant: the items are taken in insertion order.
InsertionOrder(kw) == kw

\* sorted(kwargs.items())
Sorted(kw) == SortItems(kw)

\* f"{k}={v}"
KwPart(item) == item[1] \o <<"=">> \o item[2]

\* ":".join(key_parts)
RECURSIVE Join(_)
Join(parts) ==
    IF parts = <<>> THEN <<>>
    ELSE IF Len(parts) = 1 THEN parts[1]
    ELSE parts[1] \o <<":">> \o Join(Tail(parts))

\* hashlib.md5(key_string.encode()).hexdigest()
Md5(s) == [md5 |-> s]

\* key_parts: the positional parts, then the keyword items sorted by name.
KeyParts(args, kw) == args \o [x \in DOMAIN kw |-> KwPart(Sorted(kw)[x])]

\* CacheManager.make_key(*args, **kwargs)
MakeKey(args, kw) == Md5(Join(KeyParts(args, kw)))

\* RedisCacheManager.make_key(*args, **kwargs)
RedisMakeKey(args, kw) == Md5(Join(KeyParts(args, kw)))

NoCall == [impl |-> "", args |-> <<>>, kwargs |-> <<>>, key |-> Md5(<<>>)]

KeyDefault == keyA = NoCall /\ keyB = NoCall

\* make_key(*args, **kwargs) called on a manager of class `impl`; the first
\* two calls are kept, to be compared.
make_key(impl, args, kw) ==
    /\ keyB = NoCall
    /\ LET call == [impl |-> impl, args |-> args, kwargs |-> kw,
                    key |-> IF impl = "CacheManager" THEN MakeKey(args, kw)
                            ELSE RedisMakeKey(args, kw)]
       IN  IF keyA = NoCall
           THEN keyA' = call /\ UNCHANGED keyB
           ELSE keyB' = call /\ UNCHANGED keyA
    /\ UNCHANGED nonKey

\* ========================================================== ProxyManager
\* A proxy is a string or a dict with a 'server' entry. For a string, `server`
\* holds the string itself.

Str(s) == [kind |-> "str", server |-> s, username |-> ""]
DictProxy(s, u) == [kind |-> "dict", server |-> s, username |-> u]

A == Str("a")
B == Str("b")
C == Str("c")
A2 == DictProxy("a", "u")      \* another identity on A's endpoint

Proxies == {A, B, C, A2}

\* The list handed to the constructor is a prefix of this one.
Roster == <<A, B, C, A2>>

\* get_proxy() returned None.
NoProxy == [kind |-> "None", server |-> "", username |-> ""]

\* _get_proxy_key(proxy): proxy.get('server', ...) for a dict, str(proxy)
\* for a string.
get_proxy_key(proxy) == proxy.server

Endpoints == {get_proxy_key(p) : p \in Proxies}

Strategies == {"round_robin", "random", "smart", "sticky"}

\* No entry in self.proxy_stats.
NoStats == [has |-> FALSE, success |-> 0, failure |-> 0]

\* ProxyStats()
ProxyStats == [has |-> TRUE, success |-> 0, failure |-> 0]

\* ProxyStats.total_requests
total_requests(st) == st.success + st.failure

\* ProxyStats.success_rate > x / 10, the rate being 1.0 without requests.
RateAboveTenths(st, x) ==
    IF total_requests(st) > 0 THEN 10 * st.success > x * total_requests(st) ELSE 10 > x

\* a.success_rate > b.success_rate
RateGreater(a, b) ==
    IF total_requests(a) > 0 /\ total_requests(b) > 0
    THEN a.success * total_requests(b) > b.success * total_requests(a)
    ELSE IF total_requests(a) > 0 THEN FALSE          \* a.rate <= 1.0 = b.rate
    ELSE IF total_requests(b) > 0 THEN b.success < total_requests(b)
    ELSE FALSE

\* Mutant: a proxy with few requests gets no benefit of the doubt.
EligibleByRate(st) == RateAboveTenths(st, 1)

\* stats.success_rate > 0.1 or stats.total_requests < 10
Eligible(st) == RateAboveTenths(st, 1) \/ total_requests(st) < 10

Members(pool) == {pool[x] : x \in DOMAIN pool}

\* The pool positions whose proxy has no entry in proxy_stats.
Unkeyed == {x \in DOMAIN proxies : ~proxy_stats[get_proxy_key(proxies[x])].has}

\* viable_proxies, as pool positions.
Viable == {x \in DOMAIN proxies : Eligible(proxy_stats[get_proxy_key(proxies[x])])}

\* viable_proxies.sort(key=rate, reverse=True)[0]: the sort is stable, so
\* the first position whose rate no viable position exceeds.
Best ==
    CHOOSE x \in Viable :
        /\ \A y \in Viable : ~RateGreater(proxy_stats[get_proxy_key(proxies[y])],
                                          proxy_stats[get_proxy_key(proxies[x])])
        /\ \A y \in Viable :
              y < x => RateGreater(proxy_stats[get_proxy_key(proxies[x])],
                                   proxy_stats[get_proxy_key(proxies[y])])

\* Mutant: the index is not advanced.
SameIndex(i, n) == i

\* (self.current_index + 1) % len(self.proxies)
NextIndex(i, n) == (i + 1) % n

\* Mutant: every occurrence goes.
RemoveAll(pool, p) == SelectSeq(pool, LAMBDA q : q # p)

\* self.proxies.remove(proxy): the first occurrence goes.
RECURSIVE Remove(_, _)
Remove(pool, p) ==
    IF pool = <<>> THEN <<>>
    ELSE IF Head(pool) = p THEN Tail(pool)
    ELSE <<Head(pool)>> \o Remove(Tail(pool), p)

NoRaise == ""

PMStart ==
    /\ current_index = 0
    /\ proxy_stats = [e \in Endpoints |->
                         IF \E x \in DOMAIN proxies : get_proxy_key(proxies[x]) = e
                         THEN ProxyStats ELSE NoStats]
    /\ pmLast = [op |-> "none", ret |-> NoProxy, raised |-> NoRaise, reset |-> FALSE]
    /\ ngets = 0
    /\ poolChanged = FALSE

\* BaseActor without proxies configured builds no pool.
PMDefault ==
    /\ proxies = <<>>
    /\ rotation_strategy = "round_robin"
    /\ PMStart

\* ProxyManager(proxies, rotation_strategy): the constructor takes any list
\* and any strategy name.
PMInit ==
    /\ proxies \in {SubSeq(Roster, 1, n) : n \in 0..Min(MaxPool, Len(Roster))}
    /\ rotation_strategy \in Strategies
    /\ PMStart

\* Counter values (success, failure) that report calls have left on a proxy:
\* untested, 0.9 over 10, 0.05 over 20.
Samples == {<<0, 0>>, <<9, 1>>, <<1, 19>>}

Reported(s) == [has |-> TRUE, success |-> s[1], failure |-> s[2]]

\* ProxyManager(proxies, 'smart') some report calls later.
PMInitSmart ==
    /\ proxies \in {SubSeq(Roster, 1, n) : n \in 0..Min(MaxPool, Len(Roster))}
    /\ rotation_strategy = "smart"
    /\ current_index = 0
    /\ proxy_stats \in
          {f \in [Endpoints -> {NoStats} \cup {Reported(s) : s \in Samples}] :
              \A e \in Endpoints :
                  f[e].has <=> \E x \in DOMAIN proxies : get_proxy_key(proxies[x]) = e}
    /\ pmLast = [op |-> "none", ret |-> NoProxy, raised |-> NoRaise, reset |-> FALSE]
    /\ ngets = 0
    /\ poolChanged = FALSE

\* What the call just made is remembered as.
PMCalled(op, ret, raised) ==
    pmLast' = [op |-> op, ret |-> ret, raised |-> raised, reset |-> FALSE]

\* A get_proxy() call that took the branch of lines 93-98.
PMCalledReset(ret) ==
    pmLast' = [op |-> "get_proxy", ret |-> ret, raised |-> NoRaise, reset |-> TRUE]

\* The body of get_proxy(); `pick` is what random.choice would return.
GetProxy(pick) ==
    /\ pick \in Members(proxies) \cup {NoProxy}
    /\ IF proxies = <<>>
       THEN /\ pick = NoProxy
            /\ PMCalled("get_proxy", NoProxy, NoRaise)
            /\ UNCHANGED <<current_index, proxy_stats>>
       ELSE IF rotation_strategy = "round_robin"
       THEN /\ pick = NoProxy
            /\ IF current_index >= Len(proxies)
               THEN \* self.proxies[self.current_index]: list index out of range
                    /\ PMCalled("get_proxy", NoProxy, "IndexError")
                    /\ UNCHANGED <<current_index, proxy_stats>>
               ELSE /\ PMCalled("get_proxy", proxies[current_index + 1], NoRaise)
                    /\ current_index' = NextIndex(current_index, Len(proxies))
                    /\ UNCHANGED proxy_stats
       ELSE IF rotation_strategy = "random"
       THEN /\ pick # NoProxy
            /\ PMCalled("get_proxy", pick, NoRaise)
            /\ UNCHANGED <<current_index, proxy_stats>>
       ELSE IF rotation_strategy = "smart"
       THEN IF Unkeyed # {}
            THEN \* self.proxy_stats[key]: KeyError
                 /\ pick = NoProxy
                 /\ PMCalled("get_proxy", NoProxy, "KeyError")
                 /\ UNCHANGED <<current_index, proxy_stats>>
            ELSE IF Viable = {}
            THEN /\ pick # NoProxy
                 /\ proxy_stats' = [e \in Endpoints |->
                                       IF proxy_stats[e].has THEN ProxyStats ELSE NoStats]
                 /\ PMCalledReset(pick)
                 /\ UNCHANGED current_index
            ELSE /\ pick = NoProxy
                 /\ PMCalled("get_proxy", proxies[Best], NoRaise)
                 /\ UNCHANGED <<current_index, proxy_stats>>
       ELSE \* no branch for this strategy name: return None
            /\ pick = NoProxy
            /\ PMCalled("get_proxy", NoProxy, NoRaise)
            /\ UNCHANGED <<current_index, proxy_stats>>

\* get_proxy()
get_proxy(pick) ==
    /\ ngets < MaxGets
    /\ ngets' = ngets + 1
    /\ GetProxy(pick)
    /\ UNCHANGED <<proxies, rotation_strategy, poolChanged>>
    /\ UNCHANGED nonPM

\* The stats map after report_success(p).
SuccessReported(p) ==
    IF proxy_stats[get_proxy_key(p)].has
    THEN [proxy_stats EXCEPT ![get_proxy_key(p)].success = @ + 1]
    ELSE proxy_stats

\* The stats map after report_failure(p).
FailureReported(p) ==
    IF proxy_stats[get_proxy_key(p)].has
    THEN [proxy_stats EXCEPT ![get_proxy_key(p)].failure = @ + 1]
    ELSE proxy_stats

\* report_success(proxy)
report_success(p) ==
    /\ proxy_stats[get_proxy_key(p)].success < MaxReports
    /\ proxy_stats' = SuccessReported(p)
    /\ PMCalled("report_success", NoProxy, NoRaise)
    /\ UNCHANGED <<proxies, rotation_strategy, current_index, ngets, poolChanged>>
    /\ UNCHANGED nonPM

\* Mutant: report_failure counts a success.
report_failure_as_success(p) ==
    /\ proxy_stats[get_proxy_key(p)].failure < MaxReports
    /\ proxy_stats' = IF proxy_stats[get_proxy_key(p)].has
                      THEN [proxy_stats EXCEPT ![get_proxy_key(p)].success = @ + 1]
                      ELSE proxy_stats
    /\ PMCalled("report_failure", NoProxy, NoRaise)
    /\ UNCHANGED <<proxies, rotation_strategy, current_index, ngets, poolChanged>>
    /\ UNCHANGED nonPM

\* report_failure(proxy)
report_failure(p) ==
    /\ proxy_stats[get_proxy_key(p)].failure < MaxReports
    /\ proxy_stats' = FailureReported(p)
    /\ PMCalled("report_failure", NoProxy, NoRaise)
    /\ UNCHANGED <<proxies, rotation_strategy, current_index, ngets, poolChanged>>
    /\ UNCHANGED nonPM

\* remove_proxy(proxy)
remove_proxy(p) ==
    /\ IF p \in Members(proxies)
       THEN /\ proxies' = Remove(proxies, p)
            /\ proxy_stats' = [proxy_stats EXCEPT ![get_proxy_key(p)] = NoStats]
            /\ poolChanged' = TRUE
       ELSE UNCHANGED <<proxies, proxy_stats, poolChanged>>
    /\ PMCalled("remove_proxy", NoProxy, NoRaise)
    /\ UNCHANGED <<rotation_strategy, current_index, ngets>>
    /\ UNCHANGED nonPM

\* add_proxy(proxy)
add_proxy(p) ==
    /\ Len(proxies) < MaxPool
    /\ proxies' = Append(proxies, p)
    /\ proxy_stats' = [proxy_stats EXCEPT ![get_proxy_key(p)] = ProxyStats]
    /\ poolChanged' = TRUE
    /\ PMCalled("add_proxy", NoProxy, NoRaise)
    /\ UNCHANGED <<rotation_strategy, current_index, ngets>>
    /\ UNCHANGED nonPM

\* ================================================================== fetch
\* YouTubeAnalyzer._scrape_channel_info (scraper.py 140-206), the one fetch
\* that goes through the limiter and reports to the proxy manager: under
\* @retry_with_backoff(max_retries=3, base_delay=2.0), each attempt awaits
\* self.rate_limit(), takes self.get_proxy(), fetches, and reports the
\* outcome of the attempt before returning or re-raising. The statement
\* that opens the block closed by `except Exception` (line 203) is taken to
\* stand at line 157, after the proxy is chosen.

\* The fetch as a caller of the limiter.
F == 1

\* What a fetch has called: acquire(), get_proxy(), Fetcher.get,
\* report_success, report_failure; whether the cache held a live entry under
\* its key when it started, and when it started.
NoCounts == [acquires |-> 0, gets |-> 0, invoked |-> 0, ok |-> 0, ko |-> 0,
             hit |-> FALSE, at |-> 0]

\* The fetch before the current one: how it ended, what it called, and how
\* many acquire() calls the fetches before it had made.
NoFetch == [end |-> "none", counts |-> NoCounts, before |-> 0]

\* No fetch made yet.
FetchIdle ==
    /\ fpc = "idle"
    /\ fretries = 0
    /\ fwake = 0
    /\ fproxy = NoProxy
    /\ fend = "none"
    /\ fcur = NoCounts
    /\ fprev = NoFetch
    /\ nfetch = 0

\* self.cache.get(key) would return a value now.
CacheHolds(k) == GetResult("a", k, NoFault) # None

\* wrapper(): retries = 0 and the first pass of the loop.
FetchStart ==
    /\ fpc \in {"idle", "done"}
    /\ nfetch < MaxFetches
    /\ nfetch' = nfetch + 1
    /\ fprev' = IF nfetch = 0 THEN NoFetch
                 ELSE [end |-> fend, counts |-> fcur,
                       before |-> fprev.before + fprev.counts.acquires]
    /\ fcur' = [NoCounts EXCEPT !.hit = \E k \in Keys : CacheHolds(k), !.at = now]
    /\ fpc' = "attempt"
    /\ fretries' = 0
    /\ fend' = "none"
    /\ fproxy' = NoProxy
    /\ UNCHANGED <<now, fwake, rlVars, cbVars, rtVars, cacheVars, keyVars, pmVars>>

\* Line 151: await self.rate_limit(), which awaits self.rate_limiter.acquire().
FetchRateLimit ==
    /\ fpc = "attempt"
    /\ pc[F] = "idle"
    /\ Enter(F)
    /\ fcur' = [fcur EXCEPT !.acquires = @ + 1]
    /\ fpc' = "limiting"
    /\ UNCHANGED <<now, max_requests, time_window, ncalls>>
    /\ UNCHANGED <<fretries, fwake, fproxy, fend, fprev, nfetch>>
    /\ UNCHANGED <<cbVars, rtVars, cacheVars, keyVars, pmVars>>

\* except exceptions as e (error_handler.py 47-73) for the fetch: count the
\* retry, re-raise when the retries are used up, else sleep for the delay.
WrapperCatches ==
    /\ fretries' = fretries + 1
    /\ IF Exhausted(fretries + 1)
       THEN /\ fpc' = "done"
            /\ fend' = "error"
            /\ UNCHANGED fwake
       ELSE /\ fpc' = "backoff"
            /\ fwake' = now + Delay(fretries + 1)
            /\ UNCHANGED fend

\* acquire() raised (the empty deque of max_requests <= 0): the exception
\* leaves the function body at line 151 and reaches the wrapper.
FetchLimiterRaised ==
    /\ fpc = "limiting"
    /\ pc[F] = "raised"
    /\ pc' = [pc EXCEPT ![F] = "idle"]
    /\ WrapperCatches
    /\ UNCHANGED <<now, max_requests, time_window, requests, lockOwner, waiters,
                   wait_seconds, entered, queued, sleepUntil, history, ncalls>>
    /\ UNCHANGED <<fproxy, fcur, fprev, nfetch>>
    /\ UNCHANGED <<cbVars, rtVars, cacheVars, keyVars, pmVars>>

\* Line 155: proxy = await self.get_proxy() (base_actor.py 193-199): None
\* without a proxy manager, which exists when the configured list was not
\* empty.
FetchGetProxy(pick) ==
    /\ fpc = "limiting"
    /\ pc[F] = "admitted"
    /\ pc' = [pc EXCEPT ![F] = "idle"]
    /\ IF proxies = <<>>
       THEN /\ pick = NoProxy
            /\ fproxy' = NoProxy
            /\ fpc' = "fetching"
            /\ UNCHANGED <<current_index, proxy_stats, pmLast, fcur, fretries, fwake, fend>>
       ELSE /\ GetProxy(pick)
            /\ fcur' = [fcur EXCEPT !.gets = @ + 1]
            /\ IF pmLast'.raised # NoRaise
               THEN /\ WrapperCatches
                    /\ UNCHANGED fproxy
               ELSE /\ fproxy' = pmLast'.ret
                    /\ fpc' = "fetching"
                    /\ UNCHANGED <<fretries, fwake, fend>>
    /\ UNCHANGED <<now, max_requests, time_window, requests, lockOwner, waiters,
                   wait_seconds, entered, queued, sleepUntil, history, ncalls>>
    /\ UNCHANGED <<proxies, rotation_strategy, ngets, poolChanged, fprev, nfetch>>
    /\ UNCHANGED <<cbVars, rtVars, cacheVars, keyVars>>

\* `if proxy and self.proxy_manager`
Reports == fproxy # NoProxy /\ proxies # <<>>

\* Lines 157-206: the page is fetched and parsed. On success the proxy is
\* reported and the value returned (198-201); on any exception the proxy is
\* reported and the exception re-raised (203-206) into the wrapper.
FetchAttempt(out) ==
    /\ fpc = "fetching"
    /\ IF out = "ok"
       THEN /\ proxy_stats' = IF Reports THEN SuccessReported(fproxy) ELSE proxy_stats
            /\ pmLast' = IF Reports
                         THEN [op |-> "report_success", ret |-> NoProxy,
                               raised |-> NoRaise, reset |-> FALSE]
                         ELSE pmLast
            /\ fcur' = [fcur EXCEPT !.invoked = @ + 1,
                                    !.ok = IF Reports THEN @ + 1 ELSE @]
            /\ fpc' = "done"
            /\ fend' = "value"
            /\ UNCHANGED <<fretries, fwake>>
       ELSE /\ proxy_stats' = IF Reports THEN FailureReported(fproxy) ELSE proxy_stats
            /\ pmLast' = IF Reports
                         THEN [op |-> "report_failure", ret |-> NoProxy,
                               raised |-> NoRaise, reset |-> FALSE]
                         ELSE pmLast
            /\ fcur' = [fcur EXCEPT !.invoked = @ + 1,
                                    !.ko = IF Reports THEN @ + 1 ELSE @]
            /\ WrapperCatches
    /\ UNCHANGED <<now, proxies, rotation_strategy, current_index, ngets, poolChanged>>
    /\ UNCHANGED <<fproxy, fprev, nfetch>>
    /\ UNCHANGED <<rlVars, cbVars, rtVars, cacheVars, keyVars>>

\* Mutant: a retry repeats the request alone, with the slot and the proxy of
\* the attempt before.
ResumesAtRequest == "fetching"

\* Where a retry starts: `return await func(*args, **kwargs)` (line 45) calls
\* the decorated function again from its first line, so from line 151.
ResumesAt == "attempt"

\* The wrapper's asyncio.sleep(delay) returned: the next pass of the loop.
FetchWake ==
    /\ fpc = "backoff"
    /\ now >= fwake
    /\ fpc' = ResumesAt
    /\ UNCHANGED <<now, fretries, fwake, fproxy, fend, fcur, fprev, nfetch>>
    /\ UNCHANGED <<rlVars, cbVars, rtVars, cacheVars, keyVars, pmVars>>

\* Mutant: the timestamp is appended on the way out of a cancelled acquire.
RequestsStamped(reqs, t) == Append(reqs, t)

\* self.requests after CancelledError left acquire(): lines 58-63 are not
\* run.
RequestsAfterCancel(reqs, t) == reqs

\* The task running the fetch is cancelled while it is suspended: queued on
\* the limiter's lock, asleep inside acquire() (the lock is released on the
\* way out of `async with`), or asleep in the wrapper. CancelledError is not
\* an Exception: neither line 203 nor the wrapper catches it.
FetchCancel ==
    /\ \/ fpc = "limiting" /\ pc[F] \in {"waiting", "sleeping"}
       \/ fpc = "backoff"
    /\ IF fpc = "limiting"
       THEN /\ lockOwner' = IF pc[F] = "sleeping" THEN ReleasedLock ELSE lockOwner
            /\ waiters' = SelectSeq(waiters, LAMBDA c : c # F)
            /\ pc' = [pc EXCEPT ![F] = "idle"]
            /\ requests' = RequestsAfterCancel(requests, now)
       ELSE UNCHANGED <<lockOwner, waiters, pc, requests>>
    /\ fpc' = "done"
    /\ fend' = "cancelled"
    /\ UNCHANGED <<now, max_requests, time_window, wait_seconds, entered, queued,
                   sleepUntil, history, ncalls>>
    /\ UNCHANGED <<fretries, fwake, fproxy, fcur, fprev, nfetch>>
    /\ UNCHANGED <<cbVars, rtVars, cacheVars, keyVars, pmVars>>

\* The clock advances while a sleep is waiting for it.
FetchTick ==
    /\ \/ fpc = "backoff" /\ now < fwake
       \/ lockOwner # NoOwner /\ now < sleepUntil
    /\ now' = now + 1
    /\ UNCHANGED <<rlVars, cbVars, rtVars, cacheVars, keyVars, pmVars, fetchVars>>

\* ========================================================= specifications

vars == <<now, rlVars, cbVars, rtVars, cacheVars, keyVars, pmVars, fetchVars>>

InitRL == now = 0 /\ RLInit /\ CBDefault /\ RTDefault /\ CacheDefault /\ KeyDefault /\ FetchIdle /\ PMDefault

NextRL ==
    \/ \E c \in Callers : Call(c)
    \/ \E c \in Callers : Resume(c)
    \/ \E c \in Callers : Wake(c)
    \/ \E c \in Callers : Return(c)
    \/ RLTick

SpecRL == InitRL /\ [][NextRL]_vars

\* The event loop runs every ready coroutine and the clock keeps going.
FairSpecRL ==
    /\ SpecRL
    /\ WF_vars(RLTick)
    /\ \A c \in Callers : WF_vars(Resume(c)) /\ WF_vars(Wake(c))

InitCB == now \in 0..1 /\ RLInitIdle /\ CBInit /\ RTDefault /\ CacheDefault /\ KeyDefault /\ FetchIdle /\ PMDefault

NextCB ==
    \/ can_execute
    \/ record_success
    \/ record_failure
    \/ reset
    \/ CBTick

SpecCB == InitCB /\ [][NextCB]_vars

InitRT == now = 0 /\ RLInitIdle /\ CBDefault /\ RTInit /\ CacheDefault /\ KeyDefault /\ FetchIdle /\ PMDefault

NextRT ==
    \/ \E out \in Outcomes : Invoke(out)
    \/ RetryWake

SpecRT == InitRT /\ [][NextRT]_vars

InitCache == now = 0 /\ RLInitIdle /\ CBDefault /\ RTDefault /\ CacheInit /\ KeyDefault /\ FetchIdle /\ PMDefault

\* The backing store works.
NextCache ==
    \/ \E i \in Insts, k \in Keys : get(i, k, NoFault)
    \/ \E i \in Insts, k \in Keys, v \in Values : set(i, k, v, NoFault)
    \/ \E i \in Insts, k \in Keys : delete(i, k, NoFault)
    \/ \E i \in Insts : clear(i, IF Active(i) THEN Existing ELSE {}, NoFault)
    \/ \E i \in Insts : get_stats(i, NoFault)
    \/ CacheTick

SpecCache == InitCache /\ [][NextCache]_vars

\* The backing store may fail in any call.
NextCacheFault ==
    \/ \E i \in Insts, k \in Keys, f \in {NoFault, "io"} : get(i, k, f)
    \/ \E i \in Insts, k \in Keys, v \in Values, f \in {NoFault, "open", "dump"} :
          set(i, k, v, f)
    \/ \E i \in Insts, k \in Keys, f \in {NoFault, "io"} : delete(i, k, f)
    \/ \E i \in Insts, r \in SUBSET Keys, f \in {NoFault, "io"} : clear(i, r, f)
    \/ \E i \in Insts, f \in {NoFault, "io"} : get_stats(i, f)
    \/ CacheTick

SpecCacheFault == InitCache /\ [][NextCacheFault]_vars

InitKey == now = 0 /\ RLInitIdle /\ CBDefault /\ RTDefault /\ CacheDefault /\ KeyDefault /\ FetchIdle /\ PMDefault

NextKey ==
    \E impl \in {"CacheManager", "RedisCacheManager"}, args \in ArgSeqs, kw \in KwSeqs :
        make_key(impl, args, kw)

SpecKey == InitKey /\ [][NextKey]_vars

InitPM ==
    /\ now = 0 /\ RLInitIdle /\ CBDefault /\ RTDefault /\ CacheDefault /\ KeyDefault /\ FetchIdle
    /\ PMInit

NextPM ==
    \/ \E pick \in Proxies \cup {NoProxy} : get_proxy(pick)
    \/ \E p \in Proxies : report_success(p)
    \/ \E p \in Proxies : report_failure(p)
    \/ \E p \in Proxies : remove_proxy(p)
    \/ \E p \in Proxies : add_proxy(p)

SpecPM == InitPM /\ [][NextPM]_vars

\* A manager constructed with round_robin, its pool read and changed.
InitRR == InitPM /\ rotation_strategy = "round_robin"

NextRR ==
    \/ get_proxy(NoProxy)
    \/ \E p \in Proxies : remove_proxy(p)
    \/ \E p \in Proxies : add_proxy(p)

SpecRR == InitRR /\ [][NextRR]_vars

\* A smart manager in use: selection, reports and pool changes.
InitSmart ==
    /\ now = 0 /\ RLInitIdle /\ CBDefault /\ RTDefault /\ CacheDefault /\ KeyDefault /\ FetchIdle
    /\ PMInitSmart

SpecSmart == InitSmart /\ [][NextPM]_vars

\* A manager in use with the pool it was given, entries being retired:
\* round_robin from construction on, or smart some report calls later.
InitUse ==
    /\ now = 0 /\ RLInitIdle /\ CBDefault /\ RTDefault /\ CacheDefault /\ KeyDefault /\ FetchIdle
    /\ \/ PMInit /\ rotation_strategy = "round_robin"
       \/ PMInitSmart

NextUse ==
    \/ \E pick \in Proxies \cup {NoProxy} : get_proxy(pick)
    \/ \E p \in Proxies : report_success(p)
    \/ \E p \in Proxies : report_failure(p)
    \/ \E p \in Proxies : remove_proxy(p)

SpecUse == InitUse /\ [][NextUse]_vars

\* An actor as BaseActor.__init__ builds it: a limiter, a proxy manager over
\* the configured list (none for an empty list), a cache or none; the fetch
\* decorated with max_retries=3, base_delay=2.0; and a CircuitBreaker(1).
InitFetch ==
    /\ now = 0
    /\ RLInit
    /\ failure_threshold = 1 /\ timeout = 60 /\ state = "CLOSED" /\ failure_count = 0
    /\ last_failure_time = NoneTime /\ streak = 0 /\ trial = NoTrial
    /\ cbLast = [op |-> "none", pre |-> "CLOSED", preLft |-> NoneTime, at |-> 0, ret |-> TRUE]
    /\ max_retries = FetchMaxRetries /\ base_delay = FetchBaseDelay
    /\ max_delay = 60 /\ exponential_base = 2 /\ on_retry = "none" /\ RTStart
    /\ ttl = 24 /\ enabled \in {[i \in Insts |-> e] : e \in BOOLEAN} /\ CacheStart
    /\ KeyDefault /\ FetchIdle
    /\ proxies \in {SubSeq(Roster, 1, n) : n \in 0..2}
    /\ rotation_strategy \in {"round_robin", "smart"}
    /\ PMStart

\* Fetches one after the other; a result may have been saved under the
\* fetch's key beforehand (save_to_cache, base_actor.py 212-215).
NextFetch ==
    \/ FetchStart
    \/ FetchRateLimit
    \/ FetchLimiterRaised
    \/ \E pick \in Proxies \cup {NoProxy} : FetchGetProxy(pick)
    \/ \E out \in {"ok", "error"} : FetchAttempt(out)
    \/ FetchWake
    \/ FetchTick
    \/ Wake(F)
    \/ /\ nfetch = 0
       /\ cacheLast.op = "none"
       /\ \E k \in Keys, v \in Values : set("a", k, v, NoFault)

SpecFetch == InitFetch /\ [][NextFetch]_vars

\* The other user of the limiter.
Other == 2

\* An actor without cache, with one proxy.
InitCancel ==
    /\ InitFetch
    /\ ~enabled["a"]
    /\ proxies = <<A>>
    /\ rotation_strategy = "round_robin"

\* One fetch, which may be cancelled while it is suspended, next to another
\* coroutine that awaits acquire() on the same limiter.
NextCancel ==
    \/ nfetch = 0 /\ FetchStart
    \/ FetchRateLimit
    \/ FetchLimiterRaised
    \/ \E pick \in Proxies \cup {NoProxy} : FetchGetProxy(pick)
    \/ \E out \in {"ok", "error"} : FetchAttempt(out)
    \/ FetchWake
    \/ FetchCancel
    \/ FetchTick
    \/ ncalls < MaxOtherCalls /\ Call(Other)
    \/ Return(Other)
    \/ \E c \in {F, Other} : Resume(c)
    \/ \E c \in {F, Other} : Wake(c)

SpecCancel == InitCancel /\ [][NextCancel]_vars

\* The event loop runs every ready coroutine and the clock keeps going.
FairSpecCancel ==
    /\ SpecCancel
    /\ WF_vars(FetchTick)
    /\ \A c \in {F, Other} : WF_vars(Resume(c)) /\ WF_vars(Wake(c))

\* The components side by side.
Init ==
    /\ now = 0 /\ RLInit /\ CBInit /\ RTInit /\ CacheInit /\ KeyDefault /\ FetchIdle
    /\ PMInit

Next == NextRL \/ NextCB \/ NextRT \/ NextCacheFault \/ NextKey \/ NextPM

Spec == Init /\ [][Next]_vars

\* ------------------------------------------------- RateLimiter: claims

\* C1 (as claimed): with max_requests >= 1 (and a window of at least one tick)
\* the deque retained after a completed acquire() holds at most max_requests
\* timestamps. The deque changes only inside acquire(), so this is its length
\* in every state.
C1_RetainedAtMostMax ==
    (max_requests >= 1 /\ time_window >= 1) => Len(requests) <= max_requests

\* Admissions recorded with a time in the trailing interval (t - W, t].
AdmittedWithin(t) ==
    {i \in DOMAIN history : history[i].admit > t - time_window /\ history[i].admit <= t}

\* C2 (as claimed): in no trailing interval of time_window seconds do more than
\* max_requests admissions lie, under any interleaving of callers.
C2_TrailingWindowBound ==
    (max_requests >= 1 /\ time_window >= 1) =>
        \A t \in 0..MaxTime : Cardinality(AdmittedWithin(t)) <= max_requests

\* The first n completed acquires all entered at the instant of the first.
SameInstant(n) ==
    /\ n <= Len(history)
    /\ \A i \in 1..n : history[i].enter = history[1].enter

\* C3: on a fresh limiter with max_requests = N >= 1 and time_window = W > 0,
\* the first N acquires issued at one instant are admitted at that instant
\* without sleeping, and the (N+1)th issued at that instant sleeps for a
\* duration d with 0 < d <= W before it is admitted.
C3_BurstThenWait ==
    (max_requests >= 1 /\ time_window > 0) =>
        /\ \A k \in 1..Len(history) :
              (k <= max_requests /\ SameInstant(k)) =>
                  history[k].wait = 0 /\ history[k].admit = history[k].enter
        /\ \A c \in Callers :
              (/\ pc[c] = "sleeping"
               /\ Len(history) = max_requests
               /\ SameInstant(max_requests)
               /\ entered[c] = history[1].enter)
              => (wait_seconds[c] > 0 /\ wait_seconds[c] <= time_window)
        /\ SameInstant(max_requests + 1) =>
              /\ history[max_requests + 1].wait > 0
              /\ history[max_requests + 1].wait <= time_window
              /\ history[max_requests + 1].admit >=
                     history[max_requests + 1].enter + history[max_requests + 1].wait

\* C3 witness: N + 1 acquires issued at one instant, the last one admitted after
\* its sleep.
C3_Witness ==
    /\ max_requests = 2
    /\ time_window > 0
    /\ SameInstant(max_requests + 1)
    /\ history[max_requests + 1].wait = time_window

InFlight(c) == pc[c] \in {"waiting", "sleeping"}

RefusedEarly(since) ==
    /\ cbLast.op = "can_execute"
    /\ cbLast.pre = "OPEN"
    /\ cbLast.at - since < timeout

\* C5: from CLOSED with failure_count 0 and failure_threshold = T >= 1, the
\* breaker is still CLOSED after fewer than T record_failure() calls in a row
\* and OPEN after the T-th; a can_execute() made before timeout seconds have
\* passed since that failure returns False (and leaves the breaker OPEN).
C5_OpensAtThreshold ==
    /\ (streak >= 1 /\ streak < failure_threshold) => state = "CLOSED"
    /\ (streak = failure_threshold /\ cbLast.op = "record_failure") =>
           (state = "OPEN" /\ last_failure_time = cbLast.at)
    /\ (streak = failure_threshold /\ RefusedEarly(last_failure_time)) =>
           (cbLast.ret = FALSE /\ state = "OPEN")

\* C5 witness: the threshold-th failure in a row opened the breaker and a
\* can_execute() within the cooldown was refused.
C5_Witness ==
    /\ failure_threshold = 3
    /\ streak = 3
    /\ state = "OPEN"
    /\ RefusedEarly(last_failure_time)
    /\ cbLast.ret = FALSE

\* C6 (as claimed): a can_execute() that finds the breaker OPEN returns False
\* and leaves it OPEN while fewer than timeout seconds have passed since
\* last_failure_time, and returns True and moves it to HALF_OPEN once at least
\* timeout seconds have passed, for every last_failure_time (0 included); the
\* breaker is HALF_OPEN only as left by a can_execute() call.
C6_LazyHalfOpen ==
    /\ (cbLast.op = "can_execute" /\ cbLast.pre = "OPEN" /\ timeout >= 1) =>
           IF cbLast.at - cbLast.preLft < timeout
           THEN cbLast.ret = FALSE /\ state = "OPEN"
           ELSE cbLast.ret = TRUE /\ state = "HALF_OPEN"
    /\ state = "HALF_OPEN" => cbLast.op = "can_execute"

\* C7: a record_success() that finds the breaker HALF_OPEN leaves it CLOSED
\* with failure_count 0, and a can_execute() after it returns True.
C7_TrialSuccessCloses ==
    trial.outcome = "succeeded" =>
        /\ state = "CLOSED"
        /\ failure_count = 0
        /\ cbLast.op = "can_execute" => cbLast.ret = TRUE

\* C7 witness: the half-open trial succeeded and the next can_execute() was
\* let through.
C7_Witness ==
    /\ trial.outcome = "succeeded"
    /\ cbLast.op = "can_execute"
    /\ cbLast.ret = TRUE
    /\ state = "CLOSED"

\* C8: a record_failure() that finds the breaker HALF_OPEN leaves it OPEN
\* whatever failure_count is, with last_failure_time the time of that failure;
\* a can_execute() made before a full timeout has passed since that failure
\* returns False, and the breaker leaves OPEN again only by a can_execute()
\* made after it.
C8_TrialFailureReopens ==
    trial.outcome = "failed" =>
        /\ last_failure_time = trial.at
        /\ cbLast.op = "record_failure" => state = "OPEN"
        /\ RefusedEarly(trial.at) => (cbLast.ret = FALSE /\ state = "OPEN")
        /\ state # "OPEN" =>
               (/\ state = "HALF_OPEN"
                /\ cbLast.op = "can_execute"
                /\ cbLast.at - trial.at >= timeout)

\* C8 witness: the trial failed with failure_count below the threshold, and a
\* can_execute() within the new cooldown was refused.
C8_Witness ==
    /\ trial.outcome = "failed"
    /\ failure_count < failure_threshold
    /\ state = "OPEN"
    /\ RefusedEarly(trial.at)
    /\ cbLast.ret = FALSE

\* ------------------------------------------ retry_with_backoff: claims

Finished == rpc \in {"returned", "raised"}

\* Every failure of func so far was of a retryable kind.
AllRetryable == \A i \in DOMAIN outcomes : outcomes[i].kind # "other"

Succeeded(i) == outcomes[i].kind = "ok"

\* The retries ran out: the wrapper raised on a retryable failure.
RetriesExhausted ==
    /\ rpc = "raised"
    /\ outcomes # <<>>
    /\ outcomes[Len(outcomes)].kind = "retryable"

\* C9: with max_retries = R >= 0 and every failure retryable, func is invoked
\* at most R + 1 times and never again after a success; a wrapper call that
\* ended either returned the value of the first successful invocation k (then
\* func was invoked k <= R + 1 times, with k - 1 delays), or raised after
\* exactly R + 1 failed invocations (with R delays).
C9_InvocationCount ==
    AllRetryable =>
        /\ Len(outcomes) <= max_retries + 1
        /\ \A i \in DOMAIN outcomes : Succeeded(i) => i = Len(outcomes)
        /\ Finished =>
              IF \E i \in DOMAIN outcomes : Succeeded(i)
              THEN /\ rpc = "returned"
                   /\ propagated.how = "return"
                   /\ propagated.value = outcomes[Len(outcomes)].val
                   /\ Len(delays) = Len(outcomes) - 1
              ELSE /\ rpc = "raised"
                   /\ Len(outcomes) = max_retries + 1
                   /\ Len(delays) = max_retries
        /\ (outcomes # <<>> /\ Succeeded(Len(outcomes))) => Finished

\* C9 witness: with max_retries = 3 an always-failing func was invoked 4 times.
C9_Witness ==
    /\ max_retries = 3
    /\ rpc = "raised"
    /\ Len(outcomes) = 4
    /\ \A i \in DOMAIN outcomes : outcomes[i].kind = "retryable"

NotRetryable == {i \in DOMAIN outcomes : outcomes[i].kind = "other"}

\* C11: a failure of a kind that is not retryable leaves the wrapper from the
\* invocation that raised it, as it is: func is not invoked again, and the
\* delays taken, the callbacks made and the retry counter are those of the
\* retryable failures before it (that invocation adds none).
C11_NotRetryablePropagates ==
    \A i \in NotRetryable :
        /\ i = Len(outcomes)
        /\ rpc = "raised"
        /\ propagated.how = "raise"
        /\ propagated.exc = Exception(outcomes[i].val)
        /\ retries = i - 1
        /\ Len(delays) = i - 1
        /\ Len(callbacks) = (IF on_retry = "none" THEN 0 ELSE i - 1)
        /\ \A j \in DOMAIN callbacks : callbacks[j].error # outcomes[i].val
        /\ \A j \in DOMAIN errlog : errlog[j].error # outcomes[i].val

\* C11 witness: with a callback installed and retries left, the second
\* invocation failed with a kind that is not retryable.
C11_Witness ==
    /\ on_retry = "ok"
    /\ max_retries = 3
    /\ Len(outcomes) = 2
    /\ outcomes[1].kind = "retryable"
    /\ outcomes[2].kind = "other"
    /\ rpc = "raised"

\* ----------------------------------------------------------- cache: claims

\* The last call was get(k) on an enabled manager, after a set(k, ...) that
\* no delete or clear has undone.
GotAfterSet(k) ==
    /\ cacheLast.op = "get"
    /\ cacheLast.key = k
    /\ Active(cacheLast.inst)
    /\ written[k].by # ""

\* The age, at the last call, of what the last set(k, ...) stored.
AgeAtGet(k) == cacheLast.at - written[k].at

\* C12: with ttl > 0, get(key) returns the stored value when the entry's age
\* is below ttl and None when it exceeds ttl; the get that finds the entry
\* expired removes its file, and from then on, until the next set(key, ...),
\* the file is absent and every get(key) returns None.
C12_ExpiryAndEviction ==
    \A k \in Keys :
        /\ (GotAfterSet(k) /\ ttl > 0) =>
              /\ AgeAtGet(k) < ttl => cacheLast.ret = written[k].value
              /\ AgeAtGet(k) > ttl => cacheLast.ret = None /\ files[k] = NoFile
        /\ stale[k] =>
              /\ files[k] = NoFile
              /\ (cacheLast.op = "get" /\ cacheLast.key = k) => cacheLast.ret = None

\* C12 witness: a get on an enabled manager found the entry older than ttl,
\* returned None and left no file.
C12_Witness ==
    /\ ttl > 0
    /\ GotAfterSet("k1")
    /\ AgeAtGet("k1") > ttl
    /\ stale["k1"]
    /\ cacheLast.ret = None
    /\ files["k1"] = NoFile

\* C13: on a disabled manager get returns None, and get, set, delete and clear
\* return without raising and leave cache_dir as it was, also when an enabled
\* manager stored entries there before.
C13_DisabledIsInert ==
    (cacheLast.op # "none" /\ ~enabled[cacheLast.inst]) =>
        /\ cacheLast.ret = None
        /\ ~cacheLast.raised
        /\ ~cacheLast.changed

\* C13 witness: get on the disabled manager returned None while the file an
\* enabled manager wrote is there and not expired.
C13_Witness ==
    /\ cacheLast.op = "get"
    /\ ~enabled[cacheLast.inst]
    /\ cacheLast.ret = None
    /\ files["k1"].kind = "json"
    /\ ~Expired(files["k1"], cacheLast.at)
    /\ written["k1"].by = "a"

\* C14: after any sequence of set calls on a key by the enabled managers, a
\* get issued while the age counted from the last of them does not exceed ttl
\* (or with ttl = 0) returns the value of that last set: an overwrite restarts
\* the ttl clock and the last writer wins.
C14_LastWriterWins ==
    \A k \in Keys :
        (GotAfterSet(k) /\ (ttl = 0 \/ AgeAtGet(k) <= ttl)) =>
            cacheLast.ret = written[k].value

\* C14 witness: one manager overwrote the other's entry, and a get returned
\* the new value at a time when the overwritten entry would have expired.
C14_Witness ==
    /\ ttl > 0
    /\ GotAfterSet("k1")
    /\ written["k1"].pby # ""
    /\ written["k1"].pby # written["k1"].by
    /\ cacheLast.at - written["k1"].pat > ttl
    /\ cacheLast.ret = written["k1"].value
    /\ cacheLast.ret # None

\* C17 (as claimed): no cache call raises to its caller, whatever the backing
\* store does.
C17_NoFailurePropagates == ~cacheLast.raised

BothKeyed == keyA # NoCall /\ keyB # NoCall

\* The keyword arguments as a mapping, the insertion order forgotten.
Mapping(kw) == {kw[x] : x \in DOMAIN kw}

\* C15: two make_key calls with the same positional sequence and the same
\* keyword mapping give the same key, whatever the order in which the keyword
\* arguments were given, on the same manager class or on the two classes.
C15_SameInputsSameKey ==
    (/\ BothKeyed
     /\ keyA.args = keyB.args
     /\ Mapping(keyA.kwargs) = Mapping(keyB.kwargs)) => keyA.key = keyB.key

\* C15 witness: the same two keyword arguments given in the two orders, one
\* call on each manager class, with the same key.
C15_Witness ==
    /\ BothKeyed
    /\ keyA.impl # keyB.impl
    /\ keyA.args = keyB.args
    /\ Len(keyA.kwargs) = 2
    /\ keyA.kwargs # keyB.kwargs
    /\ Mapping(keyA.kwargs) = Mapping(keyB.kwargs)
    /\ keyA.key = keyB.key

\* How many times part p occurs in the sequence s.
Count(p, s) == Cardinality({x \in DOMAIN s : s[x] = p})

\* t holds the parts of s in another order.
Reordered(s, t) ==
    /\ s # t
    /\ Len(s) = Len(t)
    /\ \A p \in Parts : Count(p, s) = Count(p, t)

\* C16 (as claimed): two sequences of positional parts that hold the same
\* parts in a different order give different keys.
C16_OrderChangesKey ==
    (/\ BothKeyed
     /\ keyA.kwargs = <<>>
     /\ keyB.kwargs = <<>>
     /\ Reordered(keyA.args, keyB.args)) => keyA.key # keyB.key

\* ---------------------------------------------------- ProxyManager: claims

\* C19 (as claimed): for each of the three strategies and whatever calls were
\* made before, a get_proxy() call returns None exactly when the pool is
\* empty, and a member of the pool otherwise (it does not raise).
C19_NoneIffEmpty ==
    (/\ rotation_strategy \in {"round_robin", "random", "smart"}
     /\ pmLast.op = "get_proxy") =>
        /\ pmLast.raised = NoRaise
        /\ pmLast.ret = NoProxy <=> proxies = <<>>
        /\ proxies # <<>> => pmLast.ret \in Members(proxies)

\* C20: under round_robin, while the pool is as constructed, of size n >= 1,
\* the k-th get_proxy() call (k from 0) returns pool[k mod n] and leaves the
\* index at (k + 1) mod n.
C20_RoundRobinCycle ==
    (/\ rotation_strategy = "round_robin"
     /\ ~poolChanged
     /\ proxies # <<>>
     /\ pmLast.op = "get_proxy") =>
        /\ pmLast.raised = NoRaise
        /\ pmLast.ret = proxies[((ngets - 1) % Len(proxies)) + 1]
        /\ current_index = ngets % Len(proxies)

\* C20 witness: on the pool [A, B, C] the fourth call returned A again.
C20_Witness ==
    /\ rotation_strategy = "round_robin"
    /\ ~poolChanged
    /\ proxies = <<A, B, C>>
    /\ ngets = 4
    /\ pmLast.op = "get_proxy"
    /\ pmLast.ret = A

\* The success rate of a counter pair as a fraction, 1/1 without requests.
RateNum(st) == IF st.success + st.failure = 0 THEN 1 ELSE st.success
RateDen(st) == IF st.success + st.failure = 0 THEN 1 ELSE st.success + st.failure

\* The counters of the pool entry at position x.
StatsAt(x) == proxy_stats[get_proxy_key(proxies[x])]

\* The pool positions with successRate > 0.1 or fewer than 10 requests.
EligibleEntries ==
    {x \in DOMAIN proxies :
        \/ 10 * RateNum(StatsAt(x)) > RateDen(StatsAt(x))
        \/ StatsAt(x).success + StatsAt(x).failure < 10}

\* Position x has the highest rate among the eligible ones and is the first
\* such position.
FirstBest(x) ==
    /\ x \in EligibleEntries
    /\ \A y \in EligibleEntries :
          RateNum(StatsAt(y)) * RateDen(StatsAt(x)) <= RateNum(StatsAt(x)) * RateDen(StatsAt(y))
    /\ \A y \in EligibleEntries :
          y < x => RateNum(StatsAt(y)) * RateDen(StatsAt(x)) < RateNum(StatsAt(x)) * RateDen(StatsAt(y))

\* C21 (as claimed): under smart, a get_proxy() call made while some pool
\* entry is eligible returns the eligible entry with the highest success
\* rate, the earliest among ties, and changes no counter; with A at 9/1 and
\* B at 1/19 it returns A.
C21_SmartPicksBest ==
    [][(/\ rotation_strategy = "smart"
        /\ ngets' = ngets + 1
        /\ EligibleEntries # {}) =>
           /\ pmLast'.raised = NoRaise
           /\ \E x \in DOMAIN proxies : FirstBest(x) /\ pmLast'.ret = proxies[x]
           /\ proxy_stats' = proxy_stats
           /\ (/\ proxies = <<A, B>>
               /\ proxy_stats["a"] = Reported(<<9, 1>>)
               /\ proxy_stats["b"] = Reported(<<1, 19>>)) => pmLast'.ret = A]_vars

\* C22: under smart, a get_proxy() call made while the pool holds entries and
\* none is eligible sets every success and failure counter to zero and
\* returns a member of the pool; a get_proxy() call changes counters in no
\* other case; and the get_proxy() call that follows a reset finds every
\* entry eligible and selects by success rate without resetting again.
C22_StarvationReset ==
    [][ngets' = ngets + 1 =>
          /\ (/\ rotation_strategy = "smart"
              /\ proxies # <<>>
              /\ EligibleEntries = {}) =>
                 /\ pmLast'.raised = NoRaise
                 /\ pmLast'.ret \in Members(proxies)
                 /\ \A e \in Endpoints :
                       /\ proxy_stats'[e].success = 0
                       /\ proxy_stats'[e].failure = 0
                       /\ proxy_stats'[e].has = proxy_stats[e].has
          /\ proxy_stats' # proxy_stats =>
                 /\ rotation_strategy = "smart"
                 /\ proxies # <<>>
                 /\ EligibleEntries = {}
          /\ (pmLast.op = "get_proxy" /\ pmLast.reset) =>
                 /\ EligibleEntries = DOMAIN proxies
                 /\ \E x \in DOMAIN proxies : FirstBest(x) /\ pmLast'.ret = proxies[x]
                 /\ proxy_stats' = proxy_stats]_vars

\* C22 witness: a call on a pool of two poisoned proxies has reset the
\* counters and returned the second one.
C22_Witness ==
    /\ pmLast.op = "get_proxy"
    /\ pmLast.reset
    /\ proxies = <<A, B>>
    /\ pmLast.ret = B
    /\ proxy_stats["a"] = ProxyStats
    /\ proxy_stats["b"] = ProxyStats

\* A report on proxy p has moved the counters of p's endpoint by (ds, df) if
\* the endpoint has a stats record and has changed nothing if it has none;
\* every other record, the pool and the rotation index are as before and
\* nothing was raised.
ReportedBy(p, ds, df) ==
    /\ proxy_stats[get_proxy_key(p)].has =>
          /\ proxy_stats'[get_proxy_key(p)].has
          /\ proxy_stats'[get_proxy_key(p)].success = proxy_stats[get_proxy_key(p)].success + ds
          /\ proxy_stats'[get_proxy_key(p)].failure = proxy_stats[get_proxy_key(p)].failure + df
    /\ ~proxy_stats[get_proxy_key(p)].has => proxy_stats' = proxy_stats
    /\ \A e \in Endpoints \ {get_proxy_key(p)} : proxy_stats'[e] = proxy_stats[e]
    /\ proxies' = proxies
    /\ current_index' = current_index
    /\ rotation_strategy' = rotation_strategy
    /\ pmLast'.raised = NoRaise

\* C23: report_success(p) adds one to the success counter of p's endpoint and
\* report_failure(p) one to its failure counter, and nothing else changes;
\* without a stats record for the endpoint nothing changes at all.
C23_ReportsCountOnce ==
    [][\A p \in Proxies :
          /\ report_success(p) => ReportedBy(p, 1, 0)
          /\ report_failure(p) => ReportedBy(p, 0, 1)]_vars

\* C23 witness: under round_robin with the index at 1, a failure was reported
\* on B after a success on A; a report on C, which has no record, is
\* possible too.
C23_Witness ==
    /\ rotation_strategy = "round_robin"
    /\ proxies = <<A, B>>
    /\ current_index = 1
    /\ pmLast.op = "report_failure"
    /\ proxy_stats["a"] = Reported(<<1, 0>>)
    /\ proxy_stats["b"] = Reported(<<0, 1>>)
    /\ ~proxy_stats["c"].has

\* The pool has lost exactly one entry equal to p, the others keeping their
\* order.
OneEntryGone(p) ==
    \E x \in DOMAIN proxies :
        /\ proxies[x] = p
        /\ proxies' = SubSeq(proxies, 1, x - 1) \o SubSeq(proxies, x + 1, Len(proxies))

\* C24: add_proxy(p) leaves p in the pool and a stats record for p's
\* endpoint; remove_proxy(p) for p in the pool takes one entry p out of the
\* pool and the record of its endpoint out of the stats map in the same
\* call; remove_proxy(p) for p not in the pool changes nothing.
C24_PoolAndStatsTogether ==
    [][\A p \in Proxies :
          /\ add_proxy(p) =>
                /\ p \in Members(proxies')
                /\ proxy_stats'[get_proxy_key(p)].has
          /\ (remove_proxy(p) /\ p \in Members(proxies)) =>
                /\ OneEntryGone(p)
                /\ ~proxy_stats'[get_proxy_key(p)].has
          /\ (remove_proxy(p) /\ p \notin Members(proxies)) =>
                /\ proxies' = proxies
                /\ proxy_stats' = proxy_stats
                /\ current_index' = current_index]_vars

\* C24 witness: A was taken out of [A, B, A]: one A is left, the record of
\* its endpoint is gone, B's is there.
C24_Witness ==
    /\ pmLast.op = "remove_proxy"
    /\ proxies = <<B, A>>
    /\ ~proxy_stats["a"].has
    /\ proxy_stats["b"].has

\* C29 (as claimed): a manager on which get_proxy() is called has one of the
\* three strategy names; any other name was refused at construction.
C29_StrategyValidated ==
    pmLast.op = "get_proxy" => rotation_strategy \in {"round_robin", "random", "smart"}

\* C30: a record_success() that finds the breaker CLOSED leaves it CLOSED
\* with failure_count 0, and the breaker leaves CLOSED only by a
\* record_failure() that is at least the failure_threshold-th in a row with
\* no success recorded between them; so while every run of failures is
\* shorter than failure_threshold the breaker stays CLOSED.
C30_OpensOnlyOnFullRun ==
    [][/\ (record_success /\ state = "CLOSED") =>
              (state' = "CLOSED" /\ failure_count' = 0)
       /\ (state = "CLOSED" /\ state' # "CLOSED") =>
              /\ record_failure
              /\ state' = "OPEN"
              /\ streak' >= failure_threshold
       /\ (state = "CLOSED" /\ record_failure /\ streak' < failure_threshold) =>
              state' = "CLOSED"]_vars

\* C30 witness: with threshold 2, a record_success() found the breaker
\* CLOSED after a failure had been recorded and left it CLOSED with a count
\* of 0.
C30_Witness ==
    /\ failure_threshold = 2
    /\ cbLast.op = "record_success"
    /\ cbLast.pre = "CLOSED"
    /\ last_failure_time # NoneTime
    /\ state = "CLOSED"
    /\ failure_count = 0

\* ------------------------------------------------------- fetch: claims

\* C25 (as claimed): a fetch that starts while the cache holds a live entry
\* under its key acquires no rate-limit slot, calls neither get_proxy nor a
\* report, makes no request and no breaker call: the limiter's window, the
\* proxy counters and the breaker are as they were (shown for a limiter of
\* at least one slot).
C25_HitTouchesNothing ==
    (nfetch = 1 /\ fcur.hit /\ max_requests >= 1) =>
        /\ fcur.acquires = 0
        /\ fcur.gets = 0
        /\ fcur.invoked = 0
        /\ fcur.ok = 0 /\ fcur.ko = 0
        /\ requests = <<>>
        /\ cbLast.op = "none"
        /\ fpc = "done" => fend = "value"

\* Every attempt of the fetch described by `counts` made its request, and
\* the retries were used up.
AlwaysFailed(counts) == counts.invoked = FetchMaxRetries + 1

\* C26 (as claimed): without cache and with a breaker of threshold 1, a
\* first fetch whose operation always fails leaves the breaker OPEN, and a
\* second fetch started before the breaker's timeout has passed acquires no
\* slot, calls no get_proxy, makes no request and ends with the breaker-open
\* error.
C26_OpenBreakerFailsFast ==
    (~enabled["a"] /\ failure_threshold = 1) =>
        /\ (nfetch = 1 /\ fpc = "done" /\ fend = "error" /\ AlwaysFailed(fcur)) =>
               state = "OPEN"
        /\ (/\ nfetch = 2
            /\ fprev.end = "error"
            /\ AlwaysFailed(fprev.counts)
            /\ fcur.at - fprev.counts.at < timeout) =>
               /\ fcur.acquires = 0
               /\ fcur.gets = 0
               /\ fcur.invoked = 0
               /\ fpc = "done" => fend = "breaker_open"

\* C27 (as claimed): when a fetch made through a proxy has ended in final
\* failure, the proxy chosen for it has received one report_failure from
\* it, however many attempts were retried, the breaker's last call is the
\* record_failure of that fetch, and the cache holds no entry under the
\* fetch's key.
C27_OneReportPerFetch ==
    (fpc = "done" /\ fend = "error" /\ ~fcur.hit /\ fproxy # NoProxy) =>
        /\ fcur.ko = 1
        /\ cbLast.op = "record_failure"
        /\ \A k \in Keys : ~CacheHolds(k)

\* C28: a cancellation of the fetch while it is suspended in acquire() or in
\* the wrapper's sleep ends the fetch with the cancellation and records no
\* admission, changes no proxy or breaker state and leaves the fetch neither
\* holding nor queued on the limiter's lock; the cancelled fetch goes no
\* further; and every other acquire() in flight is admitted in the end.
C28_CancelLeavesNoTrace ==
    /\ [][/\ FetchCancel =>
                /\ fpc' = "done" /\ fend' = "cancelled"
                /\ requests' = requests
                /\ history' = history
                /\ <<proxies, current_index, proxy_stats>>' = <<proxies, current_index, proxy_stats>>
                /\ <<state, failure_count, last_failure_time>>' =
                       <<state, failure_count, last_failure_time>>
                /\ lockOwner' # F
                /\ pc'[F] = "idle"
                /\ \A i \in DOMAIN waiters' : waiters'[i] # F
          /\ fend = "cancelled" =>
                /\ fend' = "cancelled" /\ fpc' = "done" /\ fcur' = fcur
                /\ pc'[F] = "idle"
                /\ proxy_stats' = proxy_stats]_vars
    /\ (fend = "cancelled" /\ InFlight(Other)) ~> pc[Other] = "admitted"

\* C28 witness: the fetch was cancelled in its first acquire(), before any
\* request, and the other caller, which had queued on the lock behind it,
\* has been admitted.
C28_Witness ==
    /\ fend = "cancelled"
    /\ fcur.acquires = 1
    /\ fcur.invoked = 0
    /\ queued[Other]
    /\ pc[Other] = "admitted"

\* ------------------------------------------------- retry: backoff delays

\* base_delay * exponential_base^(n - 1), by repeated multiplication.
Grown(n) == base_delay * Pow(exponential_base, n - 1)

\* C31: the delay taken before the n-th retry is
\* min(base_delay * exponential_base^(n - 1), max_delay): it never exceeds
\* max_delay, it does not decrease with n when exponential_base >= 1, there
\* are never more delays than max_retries and none after the failure that
\* exhausts the retries, and with base_delay = 1, exponential_base = 2,
\* max_retries = 3 (and a cap of at least 4) the delays of an exhausted call
\* are 1, 2, 4.
C31_BackoffDelays ==
    /\ \A n \in DOMAIN delays :
          /\ delays[n] = (IF Grown(n) <= max_delay THEN Grown(n) ELSE max_delay)
          /\ delays[n] <= max_delay
          /\ (exponential_base >= 1 /\ n > 1) => delays[n - 1] <= delays[n]
    /\ Len(delays) <= max_retries
    /\ Len(delays) = retries - (IF RetriesExhausted THEN 1 ELSE 0)
    /\ RetriesExhausted => Len(delays) = max_retries
    /\ (/\ base_delay = 1
        /\ exponential_base = 2
        /\ max_retries = 3
        /\ max_delay >= 4
        /\ RetriesExhausted) => delays = <<1, 2, 4>>

\* C31 witness: base_delay = 1, exponential_base = 2, max_retries = 3 and an
\* always-failing func: delays 1, 2, 4 and then the raise.
C31_Witness ==
    /\ base_delay = 1
    /\ exponential_base = 2
    /\ max_retries = 3
    /\ RetriesExhausted
    /\ Len(outcomes) = 4
    /\ delays = <<1, 2, 4>>

\* ------------------------------------------------- retry: failing callback

\* The invocations of func that failed with a retryable kind.
RetryableFailures == {i \in DOMAIN outcomes : outcomes[i].kind = "retryable"}

LastOutcome == outcomes[Len(outcomes)]

\* What a wrapper call has done, as the outcomes of func alone determine it:
\* the retry counter, the delays taken, where the call stands and what it
\* handed to its caller. The callback does not occur in it.
RunShape ==
    /\ \A i \in DOMAIN outcomes : i < Len(outcomes) => outcomes[i].kind = "retryable"
    /\ retries = Cardinality(RetryableFailures)
    /\ Len(delays) = (IF retries > max_retries THEN max_retries ELSE retries)
    /\ \A n \in DOMAIN delays : delays[n] = Delay(n)
    /\ IF outcomes = <<>>
       THEN rpc = "running" /\ propagated = NothingYet
       ELSE IF LastOutcome.kind = "ok"
       THEN /\ rpc = "returned"
            /\ propagated = [how |-> "return", value |-> LastOutcome.val, exc |-> Exception("")]
       ELSE IF LastOutcome.kind = "other" \/ retries > max_retries
       THEN /\ rpc = "raised"
            /\ propagated = [how |-> "raise", value |-> "", exc |-> Exception(LastOutcome.val)]
       ELSE /\ rpc \in {"sleeping", "running"}
            /\ propagated = NothingYet

\* C32: with a retry callback, failing or not, the wrapper call is what the
\* outcomes of func alone determine (same invocations, same delays, same
\* result), the callback having been called once per delay; a failing
\* callback leaves one log record per call and its error is never what the
\* caller gets.
C32_CallbackFailureSwallowed ==
    on_retry \in {"ok", "fails"} =>
        /\ RunShape
        /\ Len(callbacks) = Len(delays)
        /\ \A n \in DOMAIN callbacks :
              callbacks[n] = [retries |-> n, delay |-> delays[n], error |-> outcomes[n].val]
        /\ propagated.exc.error # "callback_error"
        /\ on_retry = "fails" =>
              Cardinality({j \in DOMAIN errlog : errlog[j].what = "error in retry callback"})
                  = Len(callbacks)

\* C32 witness: the callback failed twice, both delays were taken, and the
\* third invocation returned.
C32_Witness ==
    /\ on_retry = "fails"
    /\ Len(outcomes) = 3
    /\ rpc = "returned"
    /\ Len(delays) = 2
    /\ Len(errlog) = 2
    /\ errlog[2].what = "error in retry callback"

\* -------------------------------------------- proxy manager: counter frame

\* Some pool entry has endpoint e.
InPool(e) == \E x \in DOMAIN proxies : get_proxy_key(proxies[x]) = e

\* The call just made changed the counters that a pool entry's endpoint e had
\* and still has.
CountersChanged(e) ==
    /\ InPool(e)
    /\ proxy_stats[e].has
    /\ proxy_stats'[e].has
    /\ \/ proxy_stats'[e].success # proxy_stats[e].success
       \/ proxy_stats'[e].failure # proxy_stats[e].failure

\* C33: the counters of a pool entry change only by a report call, by one,
\* or by the reset of a smart get_proxy() that found no entry eligible; no
\* other call, add_proxy of an endpoint already in the pool included, changes
\* them.
C33_CountersChangeOnlyByReport ==
    [][\A e \in Endpoints :
          CountersChanged(e) =>
              \/ /\ pmLast'.op = "report_success"
                 /\ proxy_stats'[e].success = proxy_stats[e].success + 1
                 /\ proxy_stats'[e].failure = proxy_stats[e].failure
              \/ /\ pmLast'.op = "report_failure"
                 /\ proxy_stats'[e].success = proxy_stats[e].success
                 /\ proxy_stats'[e].failure = proxy_stats[e].failure + 1
              \/ /\ pmLast'.op = "get_proxy"
                 /\ pmLast'.reset
                 /\ rotation_strategy = "smart"
                 /\ EligibleEntries = {}
                 /\ proxy_stats'[e].success = 0
                 /\ proxy_stats'[e].failure = 0]_vars

\* ------------------------------------------ proxy manager: index and stats

\* C34: under round_robin, whatever get_proxy, add_proxy and remove_proxy
\* calls were made, while the pool is not empty the rotation index is a
\* position of the pool, and a get_proxy() call has returned a pool member
\* without raising.
C34_IndexInPool ==
    (rotation_strategy = "round_robin" /\ proxies # <<>>) =>
        /\ current_index >= 0
        /\ current_index < Len(proxies)
        /\ pmLast.op = "get_proxy" =>
              /\ pmLast.raised # "IndexError"
              /\ pmLast.ret \in Members(proxies)

\* C35: whatever add_proxy and remove_proxy calls were made, the endpoints
\* with a stats record are exactly the endpoints of the pool entries, and a
\* get_proxy() call under smart has not failed on a missing record.
C35_StatsKeysArePoolEndpoints ==
    /\ \A e \in Endpoints : proxy_stats[e].has <=> InPool(e)
    /\ (rotation_strategy = "smart" /\ pmLast.op = "get_proxy") =>
          pmLast.raised # "KeyError"

\* ------------------------------------------------ breaker: state invariants

\* C36: with failure_threshold >= 1, whatever can_execute, record_success,
\* record_failure and reset calls were made, the state is CLOSED, OPEN or
\* HALF_OPEN, and a CLOSED breaker has fewer failures counted than the
\* threshold.
C36_ClosedBelowThreshold ==
    failure_threshold >= 1 =>
        /\ state \in {"CLOSED", "OPEN", "HALF_OPEN"}
        /\ state = "CLOSED" => failure_count < failure_threshold
        /\ failure_count >= 0

\* C36 witness: a failure was recorded and the breaker is still CLOSED, one
\* failure short of the threshold, after an earlier trial closed it.
C36_Witness ==
    /\ cbLast.op = "record_failure"
    /\ state = "CLOSED"
    /\ failure_count >= 1
    /\ failure_count = failure_threshold - 1
    /\ last_failure_time # NoneTime

\* C37: a record_success() on an OPEN breaker leaves it OPEN with the same
\* last_failure_time and failure_count 0; an OPEN breaker stops being OPEN
\* only by reset() or by a can_execute() call made at least timeout seconds
\* after last_failure_time, which leaves it HALF_OPEN.
C37_SuccessLeavesOpen ==
    [][state = "OPEN" =>
          /\ cbLast'.op = "record_success" =>
                /\ state' = "OPEN"
                /\ last_failure_time' = last_failure_time
                /\ failure_count' = 0
          /\ state' # "OPEN" =>
                \/ cbLast'.op = "reset" /\ state' = "CLOSED"
                \/ /\ cbLast'.op = "can_execute"
                   /\ state' = "HALF_OPEN"
                   /\ last_failure_time # NoneTime
                   /\ now - last_failure_time >= timeout]_vars

\* C37 witness: a success was recorded on an OPEN breaker with failures
\* counted, and it is still OPEN with the count at 0.
C37_Witness ==
    /\ cbLast.op = "record_success"
    /\ cbLast.pre = "OPEN"
    /\ state = "OPEN"
    /\ failure_count = 0
    /\ last_failure_time = cbLast.preLft
    /\ last_failure_time # NoneTime

\* C38: an OPEN breaker has last_failure_time set, and a can_execute() call
\* that finds it OPEN at least timeout seconds after last_failure_time
\* returns True, so that a caller who keeps calling is admitted.
C38_NeverStuckOpen ==
    /\ state = "OPEN" => last_failure_time # NoneTime
    /\ (/\ cbLast.op = "can_execute"
        /\ cbLast.pre = "OPEN"
        /\ cbLast.preLft # NoneTime
        /\ cbLast.at - cbLast.preLft >= timeout) => cbLast.ret = TRUE

\* ------------------------------------------------- make_key: joined string

\* C40: two make_key calls that differ in the positional sequence or in the
\* keyword mapping hash different strings, parts that contain ':' or '='
\* included.
C40_JoinedStringInjective ==
    (/\ BothKeyed
     /\ \/ keyA.args # keyB.args
        \/ Mapping(keyA.kwargs) # Mapping(keyB.kwargs)) => keyA.key.md5 # keyB.key.md5

\* ----------------------------------------------- fetch: order of an attempt

\* The acquire() calls of the current fetch that have returned.
Admitted == fcur.acquires - (IF fpc = "limiting" /\ pc[F] # "admitted" THEN 1 ELSE 0)

\* The attempts of the current fetch that have ended (each with its report).
Ended == fretries + (IF fpc = "done" /\ fend = "value" THEN 1 ELSE 0)

\* C39: with a limiter of max_requests >= 1, every attempt of the fetch, the
\* first one and each retry, completes one acquire(), then asks for a proxy,
\* then sends the request, then reports the outcome of that attempt to the
\* proxy manager: at every point of the fetch the calls made so far are those
\* of the ended attempts plus the part of the running one, every completed
\* acquire() is an admission of the limiter, the request is sent with its own
\* timestamp last in the window, and a fetch ended after r retries has made
\* r + 1 acquire() calls.
C39_AttemptOrder ==
    (max_requests >= 1 /\ nfetch >= 1) =>
        /\ fcur.invoked = Ended
        /\ fcur.ok + fcur.ko = (IF proxies = <<>> THEN 0 ELSE fcur.invoked)
        /\ fcur.ok = (IF proxies # <<>> /\ fpc = "done" /\ fend = "value" THEN 1 ELSE 0)
        /\ fcur.gets = (IF proxies = <<>> THEN 0
                        ELSE IF fpc = "fetching" THEN Ended + 1 ELSE Ended)
        /\ fcur.acquires = (IF fpc \in {"limiting", "fetching"} THEN Ended + 1 ELSE Ended)
        /\ Len(history) = fprev.before + fprev.counts.acquires + Admitted
        /\ fpc = "fetching" =>
              /\ requests # <<>>
              /\ requests[Len(requests)] = history[Len(history)].admit
              /\ proxies # <<>> => fproxy \in Members(proxies)
        /\ (fpc = "done" /\ fend = "value") => fcur.acquires = fretries + 1
        /\ (fpc = "done" /\ fend = "error") =>
              /\ fretries = FetchMaxRetries + 1
              /\ fcur.acquires = FetchMaxRetries + 1

\* C39 witness: a fetch through one proxy failed four times: four acquires,
\* four proxy selections, four requests, four failure reports.
C39_Witness ==
    /\ max_requests >= 1
    /\ proxies = <<A>>
    /\ nfetch = 1
    /\ fpc = "done"
    /\ fend = "error"
    /\ fcur.acquires = 4
    /\ fcur.gets = 4
    /\ fcur.invoked = 4
    /\ fcur.ko = 4
    /\ Len(history) = 4

====
